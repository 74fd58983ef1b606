--------------------------- MODULE AssignorProofs ---------------------------
(***************************************************************************)
(* Proofs about Assignor: for any finite set of members, any subscriptions *)
(* and any numbers of partitions, both strategies give every partition     *)
(* that somebody wants to exactly one member that wants it.                *)
(*                                                                         *)
(* The loops of the code are recursive functions on an interval; that each *)
(* has the value its body says is shown by least counterexample, as is     *)
(* every invariant of a loop.                                              *)
(***************************************************************************)
EXTENDS Assignor, FiniteSetTheorems, WellFoundedInduction, TLAPS

-----------------------------------------------------------------------------
(* Numbers *)

\* A non-empty set of naturals has a least element.
LEMMA LeastOf ==
    ASSUME NEW S \in SUBSET Nat, S # {}
    PROVE  \E m \in S : \A n \in S : m <= n
<1>1. PICK x \in S : \A y \in S : ~(<<y, x>> \in OpToRel(<, Nat))
  BY NatLessThanWellFounded, WFMin, Zenon
<1>2. \A y \in S : ~(y < x)
  BY <1>1 DEF OpToRel
<1> QED
  BY <1>2

\* What holds of 0 and of the successor of whatever it holds of, holds of every
\* number up to n: induction, for a set of numbers.
LEMMA AllUpTo ==
    ASSUME NEW n \in Nat, NEW T, 0 \in T,
           \A i \in 1..n : i - 1 \in T => i \in T
    PROVE  \A i \in 0..n : i \in T
<1> DEFINE Bad == {i \in 0..n : i \notin T}
<1> SUFFICES ASSUME Bad # {} PROVE FALSE
  OBVIOUS
<1>1. Bad \in SUBSET Nat
  OBVIOUS
<1>2. PICK m \in Bad : \A k \in Bad : m <= k
  BY <1>1, LeastOf
<1>3. m \in 1..n
  BY <1>2
<1>4. m - 1 \notin Bad
  BY <1>2, <1>3
<1> QED
  BY <1>2, <1>3, <1>4

\* A non-empty finite set of numbers has a greatest element.
LEMMA GreatestOf ==
    ASSUME NEW S, IsFiniteSet(S), S \subseteq Int, S # {}
    PROVE  \E m \in S : \A n \in S : n <= m
<1> DEFINE Sizes == {k \in Nat : \A R \in SUBSET S : Cardinality(R) = k + 1 =>
                            \E m \in R : \A n \in R : n <= m}
<1>1. PICK n \in Nat : n + 1 = Cardinality(S)
  BY FS_CardinalityType, FS_EmptySet
<1>2. 0 \in Sizes
  <2> SUFFICES ASSUME NEW R \in SUBSET S, Cardinality(R) = 0 + 1
               PROVE  \E m \in R : \A k \in R : k <= m
    OBVIOUS
  <2>1. IsFiniteSet(R)
    BY FS_Subset
  <2>2. Cardinality(R) = 1
    OBVIOUS
  <2>3. PICK x : R = {x}
    BY <2>1, <2>2, FS_Singleton, Zenon
  <2>4. x \in Int /\ x <= x
    BY <2>3
  <2> QED
    BY <2>3, <2>4
<1>3. ASSUME NEW i \in 1..n, i - 1 \in Sizes PROVE i \in Sizes
  <2> SUFFICES ASSUME NEW R \in SUBSET S, Cardinality(R) = i + 1
               PROVE  \E m \in R : \A k \in R : k <= m
    OBVIOUS
  <2>1. IsFiniteSet(R)
    BY FS_Subset
  <2>2. Cardinality(R) # 0
    OBVIOUS
  <2>3. PICK x \in R : TRUE
    BY <2>1, <2>2, FS_EmptySet, Zenon
  <2>4. Cardinality(R \ {x}) = Cardinality(R) - 1 /\ R \ {x} \in SUBSET S
    BY <2>1, <2>3, FS_RemoveElement, Zenon
  <2>5. Cardinality(R \ {x}) = (i - 1) + 1
    BY <2>4
  <2>6. PICK m \in R \ {x} : \A k \in R \ {x} : k <= m
    BY <1>3, <2>4, <2>5
  <2>7. x \in Int /\ m \in Int
    BY <2>3, <2>6
  <2>8. CASE x <= m
    BY <2>6, <2>8
  <2>9. CASE m <= x
    BY <2>3, <2>6, <2>7, <2>9
  <2> QED
    BY <2>7, <2>8, <2>9
<1> HIDE DEF Sizes
<1>4. n \in Sizes
  BY <1>1, <1>2, <1>3, AllUpTo
<1> QED
  BY <1>1, <1>4 DEF Sizes

-----------------------------------------------------------------------------
(* Ascending order *)

Ascending(s) == \A i, j \in DOMAIN s : i < j => s[i] < s[j]

\* Every finite set of numbers can be listed in ascending order.
LEMMA CanBeListed ==
    ASSUME NEW S, IsFiniteSet(S), S \subseteq Int
    PROVE  \E s \in [1..Cardinality(S) -> S] : Ascending(s)
<1> DEFINE Sizes == {k \in Nat : \A R \in SUBSET S : Cardinality(R) = k =>
                            \E s \in [1..k -> R] : Ascending(s)}
<1>1. Cardinality(S) \in Nat
  BY FS_CardinalityType
<1>2. 0 \in Sizes
  <2> SUFFICES ASSUME NEW R \in SUBSET S
               PROVE  \E s \in [1..0 -> R] : Ascending(s)
    OBVIOUS
  <2>1. [i \in 1..0 |-> i] \in [1..0 -> R] /\ Ascending([i \in 1..0 |-> i])
    BY DEF Ascending
  <2> QED
    BY <2>1
<1>3. ASSUME NEW k \in 1..Cardinality(S), k - 1 \in Sizes PROVE k \in Sizes
  <2> SUFFICES ASSUME NEW R \in SUBSET S, Cardinality(R) = k
               PROVE  \E s \in [1..k -> R] : Ascending(s)
    BY <1>1
  <2>1. IsFiniteSet(R)
    BY FS_Subset
  <2>2. k # 0 /\ k \in Nat
    BY <1>1
  <2>3. R # {} /\ R \subseteq Int
    BY <2>1, <2>2, FS_EmptySet, Zenon
  <2>4. PICK m \in R : \A r \in R : r <= m
    BY <2>1, <2>3, GreatestOf
  <2>5. Cardinality(R \ {m}) = Cardinality(R) - 1 /\ R \ {m} \in SUBSET S
    BY <2>1, <2>4, FS_RemoveElement, Zenon
  <2>6. Cardinality(R \ {m}) = k - 1
    BY <2>5
  <2>7. PICK s \in [1..(k - 1) -> R \ {m}] : Ascending(s)
    BY <1>3, <2>5, <2>6
  <2> DEFINE t == [i \in 1..k |-> IF i = k THEN m ELSE s[i]]
  <2>8. \A i \in 1..k : i # k => i \in 1..(k - 1)
    BY <2>2
  <2>9. t \in [1..k -> R]
    BY <2>4, <2>7, <2>8
  <2>10. ASSUME NEW i \in 1..k, NEW j \in 1..k, i < j PROVE t[i] < t[j]
    <3>1. i \in 1..(k - 1) /\ s[i] \in R \ {m}
      BY <2>2, <2>7, <2>10
    <3>2. CASE j = k
      <4>1. t[i] = s[i] /\ t[j] = m
        BY <2>2, <3>1, <3>2
      <4>2. s[i] \in Int /\ m \in Int /\ s[i] <= m /\ s[i] # m
        BY <2>3, <2>4, <3>1
      <4>3. s[i] < m
        BY <4>2
      <4> QED
        BY <4>1, <4>3
    <3>3. CASE j # k
      <4>1. j \in 1..(k - 1)
        BY <2>8, <3>3
      <4>2. s[i] < s[j]
        BY <2>7, <2>10, <3>1, <4>1 DEF Ascending
      <4> QED
        BY <2>10, <3>1, <3>3, <4>2
    <3> QED
      BY <3>2, <3>3
  <2>11. Ascending(t)
    BY <2>9, <2>10 DEF Ascending
  <2> QED
    BY <2>9, <2>11
<1> HIDE DEF Sizes
<1>4. Cardinality(S) \in Sizes
  BY <1>1, <1>2, <1>3, AllUpTo
<1> QED
  BY <1>4 DEF Sizes

\* InOrder() lists every element of the set once, ascending.
LEMMA InOrderLists ==
    ASSUME NEW S, IsFiniteSet(S), S \subseteq Int
    PROVE  /\ Len(InOrder(S)) = Cardinality(S)
           /\ Cardinality(S) \in Nat
           /\ InOrder(S) \in Seq(S)
           /\ Ascending(InOrder(S))
           /\ \A i, j \in DOMAIN InOrder(S) : InOrder(S)[i] = InOrder(S)[j] => i = j
           /\ \A x \in S : \E i \in DOMAIN InOrder(S) : InOrder(S)[i] = x
<1> DEFINE n == Cardinality(S)
           s == InOrder(S)
<1>1. n \in Nat
  BY FS_CardinalityType
<1>2. s \in [1..n -> S] /\ Ascending(s)
  BY CanBeListed DEF InOrder, Ascending
<1>3. DOMAIN s = 1..n /\ \A i \in 1..n : s[i] \in Int
  BY <1>2
<1>4. \A i, j \in 1..n : s[i] = s[j] => i = j
  BY <1>1, <1>2, <1>3 DEF Ascending
<1>5. s \in Injection(1..n, S)
  BY <1>2, <1>4 DEF Injection, IsInjective
<1>6. Cardinality(1..n) = n
  BY <1>1, FS_Interval
<1>7. s \in Surjection(1..n, S)
  BY <1>5, <1>6, FS_Injection
<1>8. \A x \in S : \E i \in 1..n : s[i] = x
  BY <1>7 DEF Surjection
<1>9. s \in Seq(S) /\ Len(s) = n
  BY <1>1, <1>2
<1> QED
  BY <1>1, <1>2, <1>3, <1>4, <1>8, <1>9

-----------------------------------------------------------------------------
(* assignRange *)

\* The loop over the interested members moves `next` by what each takes.
LEMMA NextAfterIs ==
    ASSUME NEW count, NEW n \in Nat
    PROVE  NextAfter(count, n) =
                [i \in 0..n |-> IF i = 0 THEN 0
                                ELSE NextAfter(count, n)[i - 1] + Take(count, n, i)]
<1> DEFINE Is(g, k) == g = [i \in 0..k |-> IF i = 0 THEN 0
                                           ELSE g[i - 1] + Take(count, n, i)]
           Reached == {k \in Nat : \E g : Is(g, k)}
<1>1. 0 \in Reached
  <2>1. Is([i \in 0..0 |-> 0], 0)
    OBVIOUS
  <2> QED
    BY <2>1
<1>2. ASSUME NEW k \in 1..n, k - 1 \in Reached PROVE k \in Reached
  <2>1. PICK g : Is(g, k - 1)
    BY <1>2
  <2> DEFINE h == [i \in 0..k |-> IF i = k THEN g[k - 1] + Take(count, n, k) ELSE g[i]]
  <2>2. \A i \in 0..k : i # k => i \in 0..(k - 1)
    OBVIOUS
  <2>3. \A i \in 0..(k - 1) : g[i] = IF i = 0 THEN 0 ELSE g[i - 1] + Take(count, n, i)
    BY <2>1
  <2>4. \A i \in 1..k : h[i - 1] = g[i - 1]
    OBVIOUS
  <2>5. \A i \in 0..k : h[i] = IF i = 0 THEN 0 ELSE h[i - 1] + Take(count, n, i)
    BY <2>2, <2>3, <2>4
  <2>6. Is(h, k)
    BY <2>5
  <2> HIDE DEF h, Is
  <2>7. k \in Nat /\ \E f : Is(f, k)
    BY <2>6
  <2> QED
    BY <2>7
<1> HIDE DEF Reached
<1>3. n \in Reached
  BY <1>1, <1>2, AllUpTo
<1>4. \E g : Is(g, n)
  BY <1>3 DEF Reached
<1> QED
  BY <1>4 DEF NextAfter

\* Euclid: what the members take evenly, and the remainder, make up the count.
LEMMA Division ==
    ASSUME NEW count \in Nat, NEW n \in Nat \ {0}
    PROVE  /\ count \div n \in Nat
           /\ count % n \in 0..(n - 1)
           /\ count = n * (count \div n) + (count % n)
OBVIOUS

\* After i members `next` is i shares and as much of the remainder; after all of
\* them it is the number of partitions, and it never moves back.
LEMMA NextAfterGrows ==
    ASSUME NEW count \in Nat, NEW n \in Nat \ {0}
    PROVE  /\ NextAfter(count, n) \in [0..n -> Nat]
           /\ NextAfter(count, n)[0] = 0
           /\ NextAfter(count, n)[n] = count
           /\ \A i \in 1..n : /\ NextAfter(count, n)[i] =
                                    NextAfter(count, n)[i - 1] + Take(count, n, i)
                              /\ Take(count, n, i) \in Nat
           /\ \A i, j \in 0..n : i <= j => NextAfter(count, n)[i] <= NextAfter(count, n)[j]
<1> DEFINE next == NextAfter(count, n)
           q    == count \div n
           r    == count % n
           At   == {i \in 0..n : next[i] = i * q + (IF i < r THEN i ELSE r)}
<1>1. q \in Nat /\ r \in 0..(n - 1) /\ count = n * q + r
  BY Division
<1>2. /\ DOMAIN next = 0..n
      /\ next[0] = 0
      /\ \A i \in 1..n : next[i] = next[i - 1] + Take(count, n, i)
  <2> HIDE DEF next
  <2>1. next = [i \in 0..n |-> IF i = 0 THEN 0 ELSE next[i - 1] + Take(count, n, i)]
    BY NextAfterIs DEF next
  <2> QED
    BY <2>1
<1>3. \A i \in 1..n : Take(count, n, i) = q + (IF i - 1 < r THEN 1 ELSE 0)
  BY DEF Take
<1> HIDE DEF next, q, r
<1>4. \A i \in 1..n : Take(count, n, i) \in Nat
  BY <1>1, <1>3
<1>5. 0 \in At
  BY <1>1, <1>2
<1>6. ASSUME NEW i \in 1..n, i - 1 \in At PROVE i \in At
  <2>1. next[i - 1] = (i - 1) * q + (IF i - 1 < r THEN i - 1 ELSE r)
    BY <1>6
  <2>2. (i - 1) * q + q = i * q /\ i * q \in Nat
    BY <1>1
  <2>3. next[i] = next[i - 1] + (q + (IF i - 1 < r THEN 1 ELSE 0))
    BY <1>2, <1>3
  <2>4. (i - 1) * q \in Nat
    BY <1>1
  <2>5. next[i] = i * q + (IF i < r THEN i ELSE r)
    BY <1>1, <2>1, <2>2, <2>3, <2>4
  <2> QED
    BY <2>5
<1>7. \A i \in 0..n : next[i] = i * q + (IF i < r THEN i ELSE r)
  <2>1. \A i \in 0..n : i \in At
    <3> HIDE DEF At
    <3> QED
      BY <1>5, <1>6, AllUpTo
  <2> QED
    BY <2>1
<1>8. \A i \in 0..n : i * q \in Nat
  BY <1>1
<1>9. next \in [0..n -> Nat]
  <2>1. next = [i \in 0..n |-> next[i]]
    BY NextAfterIs DEF next
  <2>2. \A i \in 0..n : next[i] \in Nat
    BY <1>1, <1>7, <1>8
  <2> QED
    BY <2>1, <2>2
<1>10. next[n] = count
  BY <1>1, <1>7
<1>11. ASSUME NEW i \in 0..n, NEW j \in 0..n, i <= j PROVE next[i] <= next[j]
  <2> DEFINE Above == {k \in 0..n : i <= k => next[i] <= next[k]}
  <2>1. 0 \in Above
    BY <1>9
  <2>2. ASSUME NEW k \in 1..n, k - 1 \in Above PROVE k \in Above
    <3>1. next[k] = next[k - 1] + Take(count, n, k) /\ Take(count, n, k) \in Nat
      BY <1>2, <1>4
    <3>2. next[k - 1] \in Nat /\ next[i] \in Nat
      BY <1>9
    <3> QED
      BY <2>2, <3>1, <3>2
  <2>3. j \in Above
    <3> HIDE DEF Above
    <3> QED
      BY <2>1, <2>2, AllUpTo
  <2> QED
    BY <1>11, <2>3
<1> QED
  BY <1>2, <1>4, <1>9, <1>10, <1>11 DEF next

\* The blocks the interested members get are the partitions of the topic, each
\* in one block.
LEMMA BlocksTile ==
    ASSUME NEW count \in Nat, NEW n \in Nat \ {0}
    PROVE  /\ \A i \in 1..n, p \in Int :
                NextAfter(count, n)[i - 1] <= p /\ p < NextAfter(count, n)[i] =>
                    p \in 0..(count - 1)
           /\ \A i, j \in 1..n, p \in Int :
                /\ NextAfter(count, n)[i - 1] <= p /\ p < NextAfter(count, n)[i]
                /\ NextAfter(count, n)[j - 1] <= p /\ p < NextAfter(count, n)[j]
                => i = j
           /\ \A p \in 0..(count - 1) : \E i \in 1..n :
                NextAfter(count, n)[i - 1] <= p /\ p < NextAfter(count, n)[i]
<1> DEFINE next == NextAfter(count, n)
<1>1. /\ next \in [0..n -> Nat]
      /\ next[0] = 0 /\ next[n] = count
      /\ \A i, j \in 0..n : i <= j => next[i] <= next[j]
  BY NextAfterGrows
<1> HIDE DEF next
<1>2. \A i \in 1..n : /\ i \in 0..n /\ i - 1 \in 0..n
                      /\ next[i] \in Nat /\ next[i - 1] \in Nat
                      /\ next[i] <= count
  BY <1>1
<1>3. ASSUME NEW i \in 1..n, NEW j \in 1..n, NEW p \in Int, i < j, p < next[i]
      PROVE  p < next[j - 1]
  <2>1. next[i] <= next[j - 1]
    BY <1>1, <1>2, <1>3
  <2> QED
    BY <1>2, <1>3, <2>1
<1>4. ASSUME NEW i \in 1..n, NEW j \in 1..n, NEW p \in Int,
             next[i - 1] <= p, p < next[i], next[j - 1] <= p, p < next[j]
      PROVE  i = j
  <2>1. next[i - 1] \in Nat /\ next[j - 1] \in Nat
    BY <1>2
  <2>2. ~(i < j)
    BY <1>3, <1>4, <2>1
  <2>3. ~(j < i)
    BY <1>3, <1>4, <2>1
  <2> QED
    BY <2>2, <2>3
<1>5. ASSUME NEW p \in 0..(count - 1)
      PROVE  \E i \in 1..n : next[i - 1] <= p /\ p < next[i]
  <2> DEFINE Past == {i \in 0..n : p < next[i]}
  <2>1. n \in Past /\ Past \in SUBSET Nat
    BY <1>1
  <2>2. PICK i \in Past : \A j \in Past : i <= j
    BY <2>1, LeastOf
  <2>3. i \in 1..n /\ i - 1 \notin Past
    BY <1>1, <2>2
  <2> QED
    BY <1>2, <2>2, <2>3
<1>6. ASSUME NEW i \in 1..n, NEW p \in Int, next[i - 1] <= p, p < next[i]
      PROVE  p \in 0..(count - 1)
  BY <1>2, <1>6
<1> QED
  BY <1>4, <1>5, <1>6 DEF next

-----------------------------------------------------------------------------
(* The range strategy *)

\* A block from a on, up to but not including a + t, has t elements.
LEMMA SizeOfBlock ==
    ASSUME NEW a \in Nat, NEW b \in Nat, NEW t \in Nat, b = a + t
    PROVE  Cardinality(a..(b - 1)) = t
<1>1. b - 1 \in Int
  OBVIOUS
<1>2. Cardinality(a..(b - 1)) = IF a > b - 1 THEN 0 ELSE (b - 1) - a + 1
  BY <1>1, FS_Interval
<1> QED
  BY <1>2

\* The members that asked for a topic are listed once each, ascending.
LEMMA InterestedAre ==
    ASSUME NEW members, IsFiniteSet(DOMAIN members), DOMAIN members \subseteq Int, NEW topic
    PROVE  LET order == Interested(members, topic)
           IN  /\ Len(order) = Cardinality(Wanting(members, topic))
               /\ Len(order) \in Nat
               /\ DOMAIN order = 1..Len(order)
               /\ \A i \in DOMAIN order : order[i] \in Wanting(members, topic)
               /\ \A m \in Wanting(members, topic) : \E i \in DOMAIN order : order[i] = m
               /\ \A i, j \in DOMAIN order : i < j => order[i] < order[j]
               /\ \A i, j \in DOMAIN order : order[i] = order[j] => i = j
<1> DEFINE W == Wanting(members, topic)
           order == InOrder(W)
<1>1. IsFiniteSet(W) /\ W \subseteq Int
  <2>1. W \in SUBSET DOMAIN members
    BY DEF Wanting
  <2> QED
    BY <2>1, FS_Subset
<1>2. Interested(members, topic) = order
  BY DEF Interested, Wanting
<1> HIDE DEF W
<1>3. /\ Len(order) = Cardinality(W) /\ Cardinality(W) \in Nat
      /\ order \in Seq(W)
      /\ Ascending(order)
      /\ \A i, j \in DOMAIN order : order[i] = order[j] => i = j
      /\ \A x \in W : \E i \in DOMAIN order : order[i] = x
  BY <1>1, InOrderLists
<1> HIDE DEF order
<1>4. DOMAIN order = 1..Len(order) /\ \A i \in DOMAIN order : order[i] \in W
  BY <1>3
<1> QED
  BY <1>2, <1>3, <1>4 DEF W, Ascending

\* What a member gets of a topic is the block of its place in the list.
LEMMA BlockIs ==
    ASSUME NEW members, IsFiniteSet(DOMAIN members), DOMAIN members \subseteq Int,
           NEW counts, NEW topic \in DOMAIN counts,
           NEW i \in DOMAIN Interested(members, topic)
    PROVE  LET order == Interested(members, topic)
               next  == NextAfter(counts[topic], Len(order))
           IN  Block(members, counts, topic, order[i]) =
                    {<<topic, p>> : p \in next[i - 1]..(next[i] - 1)}
<1> DEFINE order == Interested(members, topic)
           next  == NextAfter(counts[topic], Len(order))
<1>1. {j \in DOMAIN order : order[j] = order[i]} = {i}
  BY InterestedAre
<1>2. Block(members, counts, topic, order[i]) =
        UNION {{<<topic, p>> : p \in next[k - 1]..(next[k] - 1)} :
                    k \in {j \in DOMAIN order : order[j] = order[i]}}
  BY DEF Block
<1> HIDE DEF next, order
<1> QED
  BY <1>1, <1>2 DEF next, order

\* Who did not ask for a topic gets nothing of it.
LEMMA NoBlock ==
    ASSUME NEW members, IsFiniteSet(DOMAIN members), DOMAIN members \subseteq Int,
           NEW counts, NEW topic \in DOMAIN counts,
           NEW m, m \notin Wanting(members, topic)
    PROVE  Block(members, counts, topic, m) = {}
<1> DEFINE order == Interested(members, topic)
           next  == NextAfter(counts[topic], Len(order))
<1>1. {j \in DOMAIN order : order[j] = m} = {}
  BY InterestedAre
<1>2. Block(members, counts, topic, m) =
        UNION {{<<topic, p>> : p \in next[k - 1]..(next[k] - 1)} :
                    k \in {j \in DOMAIN order : order[j] = m}}
  BY DEF Block
<1> HIDE DEF next, order
<1> QED
  BY <1>1, <1>2

\* The partitions of a topic that the i-th member asking for it gets: a block.
LEMMA RangeGives ==
    ASSUME NEW members, IsFiniteSet(DOMAIN members), DOMAIN members \subseteq Int,
           NEW counts, \A topic \in DOMAIN counts : counts[topic] \in Nat,
           NEW topic \in DOMAIN counts,
           NEW i \in DOMAIN Interested(members, topic)
    PROVE  LET order  == Interested(members, topic)
               next   == NextAfter(counts[topic], Len(order))
               result == AssignRange(members, counts)
           IN  /\ order[i] \in DOMAIN members
               /\ \A p : <<topic, p>> \in result[order[i]] <=>
                            p \in next[i - 1]..(next[i] - 1)
               /\ Mine(result, counts, order[i], topic) = next[i - 1]..(next[i] - 1)
<1> DEFINE order  == Interested(members, topic)
           next   == NextAfter(counts[topic], Len(order))
           result == AssignRange(members, counts)
           m      == order[i]
<1>1. m \in DOMAIN members
  BY InterestedAre DEF Wanting
<1>2. result[m] = UNION {Block(members, counts, t, m) : t \in DOMAIN counts}
  BY <1>1 DEF AssignRange
<1>3. \A t \in DOMAIN counts : \A tp \in Block(members, counts, t, m) : \E p : tp = <<t, p>>
  BY DEF Block
<1>4. Block(members, counts, topic, m) = {<<topic, p>> : p \in next[i - 1]..(next[i] - 1)}
  BY BlockIs
<1>5. Len(order) \in Nat /\ i \in 1..Len(order)
  BY InterestedAre
<1> HIDE DEF order, next, result, m
<1>6. \A p : <<topic, p>> \in result[m] <=> <<topic, p>> \in Block(members, counts, topic, m)
  BY <1>2, <1>3
<1>7. \A p : <<topic, p>> \in result[m] <=> p \in next[i - 1]..(next[i] - 1)
  BY <1>4, <1>6
<1>8. Len(order) \in Nat \ {0}
  BY <1>5
<1>9. counts[topic] \in Nat
  OBVIOUS
<1>10. \A p \in Int : next[i - 1] <= p /\ p < next[i] => p \in 0..(counts[topic] - 1)
  BY <1>5, <1>8, <1>9, BlocksTile DEF next
<1>11. next[i - 1] \in Nat /\ next[i] \in Nat
  <2>1. i - 1 \in 0..Len(order) /\ i \in 0..Len(order)
    BY <1>5
  <2>2. next \in [0..Len(order) -> Nat]
    BY <1>8, <1>9, NextAfterGrows DEF next
  <2> QED
    BY <2>1, <2>2
<1>12. \A p \in next[i - 1]..(next[i] - 1) : p \in 0..(counts[topic] - 1)
  BY <1>10, <1>11
<1>13. Mine(result, counts, m, topic) = next[i - 1]..(next[i] - 1)
  BY <1>7, <1>12 DEF Mine
<1> QED
  BY <1>1, <1>7, <1>13 DEF order, next, result, m

\* Range gives every partition somebody asked for to one member that asked for it.
THEOREM RangeHandsOutOnce ==
    ASSUME NEW members, IsFiniteSet(DOMAIN members), DOMAIN members \subseteq Int,
           NEW counts, \A topic \in DOMAIN counts : counts[topic] \in Nat
    PROVE  EveryPartitionOnce(AssignRange(members, counts), members, counts)
<1> DEFINE result == AssignRange(members, counts)
<1>1. DOMAIN result = DOMAIN members
  BY DEF AssignRange
<1>2. ASSUME NEW topic \in DOMAIN counts, NEW p \in 0..(counts[topic] - 1),
             Wanting(members, topic) # {}
      PROVE  Cardinality(Owners(result, <<topic, p>>)) = 1
  <2> DEFINE order == Interested(members, topic)
             n     == Len(order)
             next  == NextAfter(counts[topic], n)
  <2>1. /\ n \in Nat /\ DOMAIN order = 1..n
        /\ \A i \in 1..n : order[i] \in Wanting(members, topic)
        /\ \A m \in Wanting(members, topic) : \E i \in 1..n : order[i] = m
    BY InterestedAre
  <2>2. \A i \in 1..n : <<topic, p>> \in result[order[i]] <=> p \in next[i - 1]..(next[i] - 1)
    BY <2>1, RangeGives
  <2>3. counts[topic] \in Nat /\ p \in Int
    OBVIOUS
  <2> HIDE DEF order, n
  <2>4. n \in Nat \ {0}
    BY <1>2, <2>1
  <2>5. /\ \A i, j \in 1..n : /\ next[i - 1] <= p /\ p < next[i]
                              /\ next[j - 1] <= p /\ p < next[j]
                              => i = j
        /\ \E i \in 1..n : next[i - 1] <= p /\ p < next[i]
    <3>1. \A i, j \in 1..n, q \in Int : /\ next[i - 1] <= q /\ q < next[i]
                                       /\ next[j - 1] <= q /\ q < next[j]
                                       => i = j
      BY <2>3, <2>4, BlocksTile
    <3>2. \A q \in 0..(counts[topic] - 1) : \E i \in 1..n : next[i - 1] <= q /\ q < next[i]
      BY <2>3, <2>4, BlocksTile
    <3> HIDE DEF next
    <3>3. \A i, j \in 1..n : /\ next[i - 1] <= p /\ p < next[i]
                            /\ next[j - 1] <= p /\ p < next[j]
                            => i = j
      BY <2>3, <3>1
    <3>4. \E i \in 1..n : next[i - 1] <= p /\ p < next[i]
      BY <3>2
    <3> QED
      BY <3>3, <3>4
  <2>6. \A i \in 1..n : next[i - 1] \in Nat /\ next[i] \in Nat
    <3>1. \A i \in 1..n : i - 1 \in 0..n /\ i \in 0..n
      BY <2>4
    <3>2. next \in [0..n -> Nat]
      BY <2>3, <2>4, NextAfterGrows
    <3> HIDE DEF next
    <3> QED
      BY <3>1, <3>2
  <2> HIDE DEF next, result
  <2>7. \A i \in 1..n : p \in next[i - 1]..(next[i] - 1) <=> next[i - 1] <= p /\ p < next[i]
    BY <2>3, <2>6
  <2>8. PICK k \in 1..n : <<topic, p>> \in result[order[k]]
    BY <2>2, <2>5, <2>7
  <2>9. \A i \in 1..n : <<topic, p>> \in result[order[i]] => i = k
    BY <2>2, <2>5, <2>7, <2>8
  <2>10. \A m \in DOMAIN members : <<topic, p>> \in result[m] => m \in Wanting(members, topic)
    <3> SUFFICES ASSUME NEW m \in DOMAIN members, <<topic, p>> \in result[m],
                        m \notin Wanting(members, topic)
                 PROVE  FALSE
      OBVIOUS
    <3>1. result[m] = UNION {Block(members, counts, t, m) : t \in DOMAIN counts}
      BY DEF AssignRange, result
    <3>2. \A t \in DOMAIN counts : \A tp \in Block(members, counts, t, m) : \E q : tp = <<t, q>>
      BY DEF Block
    <3>3. <<topic, p>> \in Block(members, counts, topic, m)
      BY <3>1, <3>2
    <3> QED
      BY <3>3, NoBlock
  <2>11. Owners(result, <<topic, p>>) = {order[k]}
    <3>1. order[k] \in DOMAIN members
      BY <2>1 DEF Wanting
    <3>2. \A m \in DOMAIN members : <<topic, p>> \in result[m] => m = order[k]
      BY <2>1, <2>9, <2>10
    <3> QED
      BY <1>1, <2>8, <3>1, <3>2 DEF Owners
  <2> QED
    BY <2>11, FS_Singleton, Zenon
<1>3. ASSUME NEW m \in DOMAIN result, NEW tp \in result[m]
      PROVE  \E topic \in DOMAIN counts \cap members[m] :
                \E p \in 0..(counts[topic] - 1) : tp = <<topic, p>>
  <2>1. m \in DOMAIN members
    BY <1>1
  <2>2. result[m] = UNION {Block(members, counts, t, m) : t \in DOMAIN counts}
    BY <2>1 DEF AssignRange
  <2> HIDE DEF result
  <2>3. PICK topic \in DOMAIN counts : tp \in Block(members, counts, topic, m)
    BY <1>3, <2>2
  <2>4. m \in Wanting(members, topic)
    BY <2>3, NoBlock
  <2>5. topic \in DOMAIN counts \cap members[m]
    BY <2>4 DEF Wanting
  <2>6. PICK i \in DOMAIN Interested(members, topic) : Interested(members, topic)[i] = m
    BY <2>4, InterestedAre
  <2>7. PICK p : tp = <<topic, p>>
    BY <2>3 DEF Block
  <2> DEFINE next == NextAfter(counts[topic], Len(Interested(members, topic)))
  <2>8. /\ \A q : <<topic, q>> \in result[m] <=> q \in next[i - 1]..(next[i] - 1)
        /\ Mine(result, counts, m, topic) = next[i - 1]..(next[i] - 1)
    BY <2>6, RangeGives DEF result
  <2> HIDE DEF next
  <2>9. p \in 0..(counts[topic] - 1)
    BY <1>3, <2>7, <2>8 DEF Mine
  <2> QED
    BY <2>5, <2>7, <2>9
<1> QED
  BY <1>1, <1>2, <1>3 DEF EveryPartitionOnce

\* Range gives an earlier member partitions below those of a later one, and as
\* many or one more.
THEOREM RangeIsInBlocks ==
    ASSUME NEW members, IsFiniteSet(DOMAIN members), DOMAIN members \subseteq Int,
           NEW counts, \A topic \in DOMAIN counts : counts[topic] \in Nat
    PROVE  RangeIsContiguous(AssignRange(members, counts), members, counts)
<1> DEFINE result == AssignRange(members, counts)
<1> SUFFICES ASSUME NEW topic \in DOMAIN counts,
                    NEW a \in Wanting(members, topic), NEW b \in Wanting(members, topic), a < b
             PROVE  /\ \A p \in Mine(result, counts, a, topic), q \in Mine(result, counts, b, topic) :
                            p < q
                    /\ Cardinality(Mine(result, counts, a, topic))
                         - Cardinality(Mine(result, counts, b, topic)) \in {0, 1}
  BY DEF RangeIsContiguous
<1> DEFINE order == Interested(members, topic)
           n     == Len(order)
           count == counts[topic]
           next  == NextAfter(count, n)
<1>1. /\ n \in Nat /\ DOMAIN order = 1..n
      /\ \A m \in Wanting(members, topic) : \E k \in 1..n : order[k] = m
      /\ \A k, l \in 1..n : k < l => order[k] < order[l]
  BY InterestedAre
<1>2. \A k \in 1..n : Mine(result, counts, order[k], topic) = next[k - 1]..(next[k] - 1)
  BY <1>1, RangeGives
<1>3. count \in Nat
  OBVIOUS
<1>4. \A k \in 1..n : order[k] \in Wanting(members, topic)
  BY <1>1, InterestedAre
<1>5. \A m \in Wanting(members, topic) : m \in Int
  BY DEF Wanting
<1> HIDE DEF order, n, count, result
<1>6. PICK i \in 1..n : order[i] = a
  BY <1>1
<1>7. PICK j \in 1..n : order[j] = b
  BY <1>1
<1>8. i < j
  <2>1. i = j \/ j < i \/ i < j
    BY <1>1
  <2>2. order[i] \in Int /\ order[j] \in Int
    BY <1>4, <1>5
  <2> QED
    BY <1>1, <1>6, <1>7, <2>1, <2>2
<1>9. n \in Nat \ {0}
  BY <1>1, <1>6
<1>10. /\ next \in [0..n -> Nat]
       /\ \A k \in 1..n : next[k] = next[k - 1] + Take(count, n, k) /\ Take(count, n, k) \in Nat
       /\ \A k, l \in 0..n : k <= l => next[k] <= next[l]
  BY <1>3, <1>9, NextAfterGrows
<1> HIDE DEF next
<1>11. \A k \in 1..n : k \in 0..n /\ k - 1 \in 0..n
  BY <1>9
<1>12. next[i] <= next[j - 1]
  BY <1>8, <1>10, <1>11
<1>13. \A k \in 1..n : next[k] \in Nat /\ next[k - 1] \in Nat
  BY <1>10, <1>11
<1>14. \A k \in 1..n : Cardinality(next[k - 1]..(next[k] - 1)) = Take(count, n, k)
  <2> TAKE k \in 1..n
  <2>1. /\ next[k - 1] \in Nat /\ next[k] \in Nat /\ Take(count, n, k) \in Nat
        /\ next[k] = next[k - 1] + Take(count, n, k)
    BY <1>10, <1>13
  <2> QED
    BY <2>1, SizeOfBlock
<1>15. Take(count, n, i) - Take(count, n, j) \in {0, 1}
  <2>1. count \div n \in Nat /\ count % n \in 0..(n - 1)
    BY <1>3, <1>9, Division, Zenon
  <2> QED
    BY <1>8, <1>9, <2>1 DEF Take
<1>16. \A p \in next[i - 1]..(next[i] - 1), q \in next[j - 1]..(next[j] - 1) : p < q
  BY <1>12, <1>13
<1> QED
  BY <1>2, <1>6, <1>7, <1>14, <1>15, <1>16

-----------------------------------------------------------------------------
(* The round-robin strategy: every partition in order *)

\* The loop over the topics appends the partitions of each.
LEMMA ListedAfterIs ==
    ASSUME NEW topics, NEW counts, Len(topics) \in Nat
    PROVE  ListedAfter(topics, counts) =
                [i \in 0..Len(topics) |->
                    IF i = 0 THEN <<>>
                    ELSE ListedAfter(topics, counts)[i - 1]
                            \o [p \in 1..counts[topics[i]] |-> <<topics[i], p - 1>>]]
<1> DEFINE n == Len(topics)
           Part(i) == [p \in 1..counts[topics[i]] |-> <<topics[i], p - 1>>]
           Is(g, k) == g = [i \in 0..k |-> IF i = 0 THEN <<>> ELSE g[i - 1] \o Part(i)]
           Reached == {k \in Nat : \E g : Is(g, k)}
<1> HIDE DEF Part, n
<1>1. 0 \in Reached
  <2>1. Is([i \in 0..0 |-> <<>>], 0)
    OBVIOUS
  <2> QED
    BY <2>1
<1>2. ASSUME NEW k \in 1..n, k - 1 \in Reached PROVE k \in Reached
  <2>1. PICK g : Is(g, k - 1)
    BY <1>2
  <2> DEFINE h == [i \in 0..k |-> IF i = k THEN g[k - 1] \o Part(k) ELSE g[i]]
  <2>2. \A i \in 0..k : i # k => i \in 0..(k - 1)
    OBVIOUS
  <2>3. \A i \in 0..(k - 1) : g[i] = IF i = 0 THEN <<>> ELSE g[i - 1] \o Part(i)
    BY <2>1
  <2>4. \A i \in 1..k : h[i - 1] = g[i - 1]
    OBVIOUS
  <2>5. \A i \in 0..k : h[i] = IF i = 0 THEN <<>> ELSE h[i - 1] \o Part(i)
    BY <2>2, <2>3, <2>4
  <2>6. Is(h, k)
    BY <2>5
  <2> HIDE DEF h, Is
  <2>7. k \in Nat /\ \E f : Is(f, k)
    BY <2>6
  <2> QED
    BY <2>7
<1> HIDE DEF Reached
<1>3. n \in Nat
  BY DEF n
<1>4. n \in Reached
  BY <1>1, <1>2, <1>3, AllUpTo
<1>5. \E g : Is(g, n)
  BY <1>4 DEF Reached
<1> QED
  BY <1>5 DEF ListedAfter, n, Part

\* The partitions counts says there are.
Counted(counts) == UNION {{<<t, p>> : p \in 0..(counts[t] - 1)} : t \in DOMAIN counts}

\* A list, followed by the partitions of topic t.
Followed(before, t, count) == before \o [p \in 1..count |-> <<t, p - 1>>]

\* Appending one topic's partitions to a list in which it does not occur.
LEMMA ListOneMore ==
    ASSUME NEW counts, NEW before, NEW t \in DOMAIN counts, counts[t] \in Nat,
           before \in Seq(Counted(counts)),
           \A k, l \in DOMAIN before : before[k] = before[l] => k = l,
           \A k \in DOMAIN before : before[k][1] # t
    PROVE  LET after == Followed(before, t, counts[t]) IN
           /\ after \in Seq(Counted(counts))
           /\ \A k, l \in DOMAIN after : after[k] = after[l] => k = l
           /\ \A k \in DOMAIN after : after[k][1] = t \/ \E l \in DOMAIN before : after[k] = before[l]
           /\ \A l \in DOMAIN before : \E k \in DOMAIN after : after[k] = before[l]
           /\ \A p \in 0..(counts[t] - 1) : \E k \in DOMAIN after : after[k] = <<t, p>>
<1> DEFINE more  == [p \in 1..counts[t] |-> <<t, p - 1>>]
           after == Followed(before, t, counts[t])
           a == Len(before)
           b == counts[t]
<1>1. \A p \in 0..(b - 1) : <<t, p>> \in Counted(counts)
  BY DEF Counted
<1>2. a \in Nat /\ b \in Nat /\ DOMAIN before = 1..a /\ \A k \in 1..a : before[k] \in Counted(counts)
  OBVIOUS
<1>3. \A p \in 1..b : more[p] = <<t, p - 1>> /\ p - 1 \in 0..(b - 1)
  BY <1>2
<1>4. more \in Seq(Counted(counts)) /\ Len(more) = b
  <2>1. \A p \in 1..b : more[p] \in Counted(counts)
    BY <1>1, <1>3
  <2>2. more \in [1..b -> Counted(counts)]
    BY <2>1
  <2>3. b \in Nat
    BY <1>2
  <2> HIDE DEF more, b
  <2> QED
    BY <2>2, <2>3
<1>5. after = before \o more
  BY DEF Followed
<1> HIDE DEF more, after, b
<1>6. /\ after \in Seq(Counted(counts))
      /\ DOMAIN after = 1..(a + b)
      /\ \A k \in 1..(a + b) : after[k] = IF k <= a THEN before[k] ELSE more[k - a]
  <2>1. before \o more \in Seq(Counted(counts))
    BY <1>4
  <2>2. DOMAIN (before \o more) = 1..(a + b)
    BY <1>2, <1>4, SMTT(30)
  <2>3. \A k \in 1..(a + b) : (before \o more)[k] = IF k <= a THEN before[k] ELSE more[k - a]
    BY <1>2, <1>4, SMTT(30)
  <2> QED
    BY <1>5, <2>1, <2>2, <2>3, Zenon
<1> HIDE DEF a
<1>7. \A k \in 1..(a + b) : ~(k <= a) => k - a \in 1..b
  BY <1>2
<1>8. \A k \in 1..(a + b) : ~(k <= a) => after[k] = <<t, (k - a) - 1>> /\ after[k][1] = t
  BY <1>3, <1>6, <1>7
<1>9. \A k \in 1..(a + b) : k <= a => k \in 1..a /\ after[k] = before[k] /\ after[k][1] # t
  BY <1>2, <1>6
<1>10. ASSUME NEW k \in 1..(a + b), NEW l \in 1..(a + b), after[k] = after[l] PROVE k = l
  <2>1. CASE k <= a /\ l <= a
    BY <1>2, <1>9, <1>10, <2>1
  <2>2. CASE ~(k <= a) /\ ~(l <= a)
    <3>1. <<t, (k - a) - 1>> = <<t, (l - a) - 1>>
      BY <1>8, <1>10, <2>2
    <3>2. (k - a) - 1 = (l - a) - 1
      BY <3>1
    <3> QED
      BY <1>2, <3>2
  <2>3. CASE k <= a /\ ~(l <= a)
    BY <1>8, <1>9, <1>10, <2>3
  <2>4. CASE ~(k <= a) /\ l <= a
    BY <1>8, <1>9, <1>10, <2>4
  <2> QED
    BY <2>1, <2>2, <2>3, <2>4
<1>11. \A k \in 1..(a + b) : after[k][1] = t \/ \E l \in 1..a : after[k] = before[l]
  BY <1>8, <1>9
<1>12. \A l \in 1..a : l \in 1..(a + b) /\ after[l] = before[l]
  BY <1>2, <1>6
<1>13. ASSUME NEW p \in 0..(b - 1) PROVE \E k \in 1..(a + b) : after[k] = <<t, p>>
  <2> DEFINE k == a + p + 1
  <2>1. k \in 1..(a + b) /\ ~(k <= a) /\ (k - a) - 1 = p
    BY <1>2
  <2> HIDE DEF k
  <2>2. after[k] = <<t, (k - a) - 1>>
    BY <1>8, <2>1
  <2>3. after[k] = <<t, p>>
    BY <2>1, <2>2
  <2> QED
    BY <2>1, <2>3
<1> QED
  BY <1>2, <1>6, <1>10, <1>11, <1>12, <1>13 DEF after, b

\* The list after the first i topics: their partitions, once each.
ListOK(counts, topics, list, i) ==
    /\ list \in Seq(Counted(counts))
    /\ \A k, l \in DOMAIN list : list[k] = list[l] => k = l
    /\ \A k \in DOMAIN list : \E j \in 1..i : list[k][1] = topics[j]
    /\ \A j \in 1..i : \A p \in 0..(counts[topics[j]] - 1) :
            \E k \in DOMAIN list : list[k] = <<topics[j], p>>

\* Every turn of the loop over the topics leaves such a list.
LEMMA ListGrows ==
    ASSUME NEW counts, NEW n \in Nat, NEW topics, NEW i \in 1..n,
           \A j \in 1..n : topics[j] \in DOMAIN counts /\ counts[topics[j]] \in Nat,
           \A j, k \in 1..n : topics[j] = topics[k] => j = k,
           NEW before, ListOK(counts, topics, before, i - 1)
    PROVE  ListOK(counts, topics, Followed(before, topics[i], counts[topics[i]]), i)
<1> DEFINE t     == topics[i]
           after == Followed(before, t, counts[t])
<1>1. /\ before \in Seq(Counted(counts))
      /\ \A k, l \in DOMAIN before : before[k] = before[l] => k = l
      /\ \A k \in DOMAIN before : \E j \in 1..(i - 1) : before[k][1] = topics[j]
      /\ \A j \in 1..(i - 1) : \A p \in 0..(counts[topics[j]] - 1) :
            \E k \in DOMAIN before : before[k] = <<topics[j], p>>
  BY DEF ListOK
<1>2. \A j \in 1..(i - 1) : j \in 1..i /\ j \in 1..n /\ j # i
  OBVIOUS
<1>3. \A j \in 1..(i - 1) : topics[j] # t
  BY <1>2
<1>4. t \in DOMAIN counts /\ counts[t] \in Nat
  OBVIOUS
<1>5. i \in 1..i
  OBVIOUS
<1>6. t = topics[i]
  OBVIOUS
<1> HIDE DEF t
<1>7. \A k \in DOMAIN before : before[k][1] # t
  BY <1>1, <1>3
<1>8. /\ after \in Seq(Counted(counts))
      /\ \A k, l \in DOMAIN after : after[k] = after[l] => k = l
      /\ \A k \in DOMAIN after : after[k][1] = t \/ \E l \in DOMAIN before : after[k] = before[l]
      /\ \A l \in DOMAIN before : \E k \in DOMAIN after : after[k] = before[l]
      /\ \A p \in 0..(counts[t] - 1) : \E k \in DOMAIN after : after[k] = <<t, p>>
  <2>1. \A k, l \in DOMAIN before : before[k] = before[l] => k = l
    BY <1>1
  <2>2. before \in Seq(Counted(counts))
    BY <1>1
  <2> QED
    BY <1>4, <1>7, <2>1, <2>2, ListOneMore
<1> HIDE DEF after
<1>9. \A k \in DOMAIN after : \E j \in 1..i : after[k][1] = topics[j]
  BY <1>1, <1>2, <1>5, <1>6, <1>8
<1>10. ASSUME NEW j \in 1..i, NEW p \in 0..(counts[topics[j]] - 1)
       PROVE  \E k \in DOMAIN after : after[k] = <<topics[j], p>>
  <2>1. CASE j = i
    BY <1>6, <1>8, <2>1
  <2>2. CASE j # i
    <3>1. j \in 1..(i - 1)
      BY <2>2
    <3> QED
      BY <1>1, <1>8, <3>1
  <2> QED
    BY <2>1, <2>2
<1>11. ListOK(counts, topics, after, i)
  BY <1>8, <1>9, <1>10 DEF ListOK
<1> QED
  BY <1>11 DEF after, t

\* `all` lists every partition of every topic once.
LEMMA AllPartitionsAre ==
    ASSUME NEW counts, IsFiniteSet(DOMAIN counts), DOMAIN counts \subseteq Int,
           \A t \in DOMAIN counts : counts[t] \in Nat
    PROVE  LET all == AllPartitions(counts)
           IN  /\ all \in Seq(Counted(counts))
               /\ \A k, l \in DOMAIN all : all[k] = all[l] => k = l
               /\ \A tp \in Counted(counts) : \E k \in DOMAIN all : all[k] = tp
<1> DEFINE topics == InOrder(DOMAIN counts)
           n      == Len(topics)
           listed == ListedAfter(topics, counts)
           T      == {i \in 0..n : ListOK(counts, topics, listed[i], i)}
<1>1. /\ topics \in Seq(DOMAIN counts)
      /\ \A i, j \in DOMAIN topics : topics[i] = topics[j] => i = j
      /\ \A x \in DOMAIN counts : \E i \in DOMAIN topics : topics[i] = x
  BY InOrderLists
<1> HIDE DEF topics, listed, T
<1>2. /\ n \in Nat
      /\ DOMAIN topics = 1..n
      /\ \A i \in 1..n : topics[i] \in DOMAIN counts
  BY <1>1
<1>3. listed = [i \in 0..n |-> IF i = 0 THEN <<>>
                               ELSE listed[i - 1] \o [p \in 1..counts[topics[i]] |-> <<topics[i], p - 1>>]]
  BY <1>2, ListedAfterIs DEF listed
<1> HIDE DEF n
<1>4. listed[0] = <<>>
  <2>1. 0 \in 0..n
    BY <1>2
  <2> QED
    BY <1>3, <2>1
<1>5. ASSUME NEW i \in 1..n
      PROVE  listed[i] = Followed(listed[i - 1], topics[i], counts[topics[i]])
  <2>1. i \in 0..n /\ i # 0
    BY <1>2
  <2> QED
    BY <1>3, <2>1 DEF Followed
<1>6. 0 \in T
  <2>1. ListOK(counts, topics, <<>>, 0)
    BY DEF ListOK
  <2>2. 0 \in 0..n
    BY <1>2
  <2> QED
    BY <1>4, <2>1, <2>2 DEF T
<1>7. ASSUME NEW i \in 1..n, i - 1 \in T PROVE i \in T
  <2>1. ListOK(counts, topics, listed[i - 1], i - 1)
    BY <1>7 DEF T
  <2>2. /\ \A j \in 1..n : topics[j] \in DOMAIN counts /\ counts[topics[j]] \in Nat
        /\ \A j, k \in 1..n : topics[j] = topics[k] => j = k
    BY <1>1, <1>2
  <2>3. ListOK(counts, topics, Followed(listed[i - 1], topics[i], counts[topics[i]]), i)
    BY <1>2, <2>1, <2>2, ListGrows, Zenon
  <2>4. ListOK(counts, topics, listed[i], i)
    BY <1>5, <2>3, Zenon
  <2>5. i \in 0..n
    BY <1>2
  <2> QED
    BY <2>4, <2>5 DEF T
<1>8. n \in T
  <2>1. \A i \in 0..n : i \in T
    BY <1>2, <1>6, <1>7, AllUpTo
  <2> QED
    BY <1>2, <2>1
<1>9. ListOK(counts, topics, listed[n], n)
  BY <1>8 DEF T
<1>10. AllPartitions(counts) = listed[n]
  BY DEF AllPartitions, listed, n, topics
<1> DEFINE all == listed[n]
<1>11. /\ all \in Seq(Counted(counts))
       /\ \A k, l \in DOMAIN all : all[k] = all[l] => k = l
       /\ \A j \in 1..n : \A p \in 0..(counts[topics[j]] - 1) :
            \E k \in DOMAIN all : all[k] = <<topics[j], p>>
  BY <1>9 DEF ListOK
<1> HIDE DEF all
<1>12. ASSUME NEW tp \in Counted(counts) PROVE \E k \in DOMAIN all : all[k] = tp
  <2>1. PICK t \in DOMAIN counts : \E p \in 0..(counts[t] - 1) : tp = <<t, p>>
    BY DEF Counted
  <2>2. PICK p \in 0..(counts[t] - 1) : tp = <<t, p>>
    BY <2>1
  <2>3. PICK j \in 1..n : topics[j] = t
    BY <1>1, <1>2
  <2> QED
    BY <1>11, <2>2, <2>3
<1>13. AllPartitions(counts) = all
  BY <1>10 DEF all
<1> QED
  BY <1>11, <1>12, <1>13

-----------------------------------------------------------------------------
(* The round-robin strategy: dealing *)

Undealt(members) == [next |-> 0, assignment |-> [m \in DOMAIN members |-> {}]]

\* The loop over the partitions deals each.
LEMMA DealtAfterIs ==
    ASSUME NEW members, NEW order, NEW all, Len(all) \in Nat
    PROVE  DealtAfter(members, order, all) =
                [i \in 0..Len(all) |->
                    IF i = 0 THEN Undealt(members)
                    ELSE Deal(members, order, DealtAfter(members, order, all)[i - 1], all[i])]
<1> DEFINE n == Len(all)
           Step(s, i) == Deal(members, order, s, all[i])
           Is(g, k) == g = [i \in 0..k |-> IF i = 0 THEN Undealt(members) ELSE Step(g[i - 1], i)]
           Reached == {k \in Nat : \E g : Is(g, k)}
<1> HIDE DEF Step, n
<1>1. 0 \in Reached
  <2>1. Is([i \in 0..0 |-> Undealt(members)], 0)
    OBVIOUS
  <2> QED
    BY <2>1
<1>2. ASSUME NEW k \in 1..n, k - 1 \in Reached PROVE k \in Reached
  <2>1. PICK g : Is(g, k - 1)
    BY <1>2
  <2> DEFINE h == [i \in 0..k |-> IF i = k THEN Step(g[k - 1], k) ELSE g[i]]
  <2>2. \A i \in 0..k : i # k => i \in 0..(k - 1)
    OBVIOUS
  <2>3. \A i \in 0..(k - 1) : g[i] = IF i = 0 THEN Undealt(members) ELSE Step(g[i - 1], i)
    BY <2>1
  <2>4. \A i \in 1..k : h[i - 1] = g[i - 1]
    OBVIOUS
  <2>5. \A i \in 0..k : h[i] = IF i = 0 THEN Undealt(members) ELSE Step(h[i - 1], i)
    BY <2>2, <2>3, <2>4
  <2>6. Is(h, k)
    BY <2>5
  <2> HIDE DEF h, Is
  <2>7. k \in Nat /\ \E f : Is(f, k)
    BY <2>6
  <2> QED
    BY <2>7
<1> HIDE DEF Reached
<1>3. n \in Nat
  BY DEF n
<1>4. n \in Reached
  BY <1>1, <1>2, <1>3, AllUpTo
<1>5. \E g : Is(g, n)
  BY <1>4 DEF Reached
<1> QED
  BY <1>5 DEF DealtAfter, Undealt, n, Step

\* Counting on from one place of n, around the end.
LEMMA Around ==
    ASSUME NEW n \in Nat \ {0}, NEW x \in Nat, x < 2 * n
    PROVE  x % n = IF x < n THEN x ELSE x - n
<1> DEFINE q == x \div n
           r == x % n
<1>1. q \in Nat /\ r \in 0..(n - 1) /\ x = n * q + r
  BY Division
<1> HIDE DEF q, r
<1>2. CASE q = 0
  BY <1>1, <1>2 DEF r
<1>3. CASE q = 1
  BY <1>1, <1>3 DEF r
<1>4. CASE q >= 2
  <2>1. n * q >= n * 2
    BY <1>1, <1>4
  <2> QED
    BY <1>1, <2>1
<1> QED
  BY <1>1, <1>2, <1>3, <1>4

\* A list of the members in which each has one place.
Lists(order, members) ==
    /\ order \in Seq(DOMAIN members)
    /\ Len(order) \in Nat \ {0}
    /\ DOMAIN order = 1..Len(order)
    /\ \A i, j \in 1..Len(order) : order[i] = order[j] => i = j
    /\ \A m \in DOMAIN members : \E i \in 1..Len(order) : order[i] = m

\* The places that are tried for a topic, counted from `next`, where somebody
\* wants it; and who sits at a place.
PlaceOf(n, next, k) == ((next + k) % n) + 1

Wants(members, order, next, topic) ==
    {k \in 0..(Len(order) - 1) : topic \in members[order[PlaceOf(Len(order), next, k)]]}

\* Every place comes up within one round.
LEMMA EveryPlaceComesUp ==
    ASSUME NEW n \in Nat \ {0}, NEW next \in 0..(n - 1)
    PROVE  /\ \A k \in 0..(n - 1) : PlaceOf(n, next, k) \in 1..n
           /\ \A j \in 1..n : \E k \in 0..(n - 1) : PlaceOf(n, next, k) = j
<1>1. ASSUME NEW k \in 0..(n - 1)
      PROVE  (next + k) % n = IF next + k < n THEN next + k ELSE next + k - n
  <2> DEFINE x == next + k
  <2>1. x \in Nat /\ x < 2 * n
    OBVIOUS
  <2> HIDE DEF x
  <2>2. x % n = IF x < n THEN x ELSE x - n
    BY <2>1, Around, Zenon
  <2> QED
    BY <2>2 DEF x
<1>2. ASSUME NEW k \in 0..(n - 1) PROVE PlaceOf(n, next, k) \in 1..n
  BY <1>1 DEF PlaceOf
<1>3. ASSUME NEW j \in 1..n PROVE \E k \in 0..(n - 1) : PlaceOf(n, next, k) = j
  <2>1. CASE j - 1 >= next
    <3>1. j - 1 - next \in 0..(n - 1)
      BY <2>1
    <3>2. (next + (j - 1 - next)) % n = j - 1
      BY <1>1, <3>1
    <3> QED
      BY <3>1, <3>2 DEF PlaceOf
  <2>2. CASE j - 1 < next
    <3> DEFINE k == j - 1 - next + n
    <3>1. k \in 0..(n - 1) /\ next + k = j - 1 + n
      BY <2>2
    <3> HIDE DEF k
    <3>2. (next + k) % n = j - 1
      BY <1>1, <3>1
    <3>3. PlaceOf(n, next, k) = j
      BY <3>2 DEF PlaceOf
    <3> QED
      BY <3>1, <3>3
  <2> QED
    BY <2>1, <2>2
<1> QED
  BY <1>2, <1>3

\* From round s to round t one partition was dealt: nothing changes when nobody
\* wants it; otherwise it goes to the first that does, and the round goes on
\* behind that one.
DealtOne(members, order, s, t, tp) ==
    \/ t = s /\ \A m \in DOMAIN members : tp[1] \notin members[m]
    \/ \E k \in 0..(Len(order) - 1) :
        LET j == PlaceOf(Len(order), s.next, k)
        IN  /\ j \in 1..Len(order)
            /\ tp[1] \in members[order[j]]
            /\ \A l \in 0..(k - 1) : tp[1] \notin members[order[PlaceOf(Len(order), s.next, l)]]
            /\ t.next = (s.next + k + 1) % Len(order)
            /\ t.assignment = [s.assignment EXCEPT ![order[j]] = @ \cup {tp}]

\* Deal() does that.
LEMMA DealDoes ==
    ASSUME NEW members, NEW order, Lists(order, members),
           NEW s, s.next \in 0..(Len(order) - 1), NEW tp
    PROVE  DealtOne(members, order, s, Deal(members, order, s, tp), tp)
<1> DEFINE n == Len(order)
           W == Wants(members, order, s.next, tp[1])
           t == Deal(members, order, s, tp)
<1>1. /\ n \in Nat \ {0}
      /\ \A k \in 0..(n - 1) : PlaceOf(n, s.next, k) \in 1..n
      /\ \A j \in 1..n : \E k \in 0..(n - 1) : PlaceOf(n, s.next, k) = j
  <2>1. n \in Nat \ {0}
    BY DEF Lists
  <2> QED
    BY <2>1, EveryPlaceComesUp
<1>2. CASE W = {}
  <2>1. t = s
    BY <1>2 DEF Deal, Wants, PlaceOf
  <2>2. \A k \in 0..(n - 1) : tp[1] \notin members[order[PlaceOf(n, s.next, k)]]
    BY <1>2 DEF Wants
  <2>3. \A m \in DOMAIN members : \E j \in 1..n : order[j] = m
    BY DEF Lists
  <2> HIDE DEF n, t, W
  <2>4. \A m \in DOMAIN members : tp[1] \notin members[m]
    BY <1>1, <2>2, <2>3
  <2> QED
    BY <2>1, <2>4 DEF t, DealtOne
<1>3. CASE W # {}
  <2> DEFINE k == CHOOSE x \in W : \A y \in W : x <= y
  <2>1. W \in SUBSET Nat
    BY <1>1 DEF Wants
  <2>2. \E x \in W : \A y \in W : x <= y
    BY <1>3, <2>1, LeastOf
  <2>3. k \in W /\ \A y \in W : k <= y
    <3> HIDE DEF W
    <3> QED
      BY <2>2
  <2>4. t = [next       |-> (s.next + k + 1) % n,
             assignment |-> [s.assignment EXCEPT ![order[PlaceOf(n, s.next, k)]] = @ \cup {tp}]]
    BY <1>3 DEF Deal, Wants, PlaceOf
  <2> HIDE DEF k
  <2>5. /\ k \in 0..(n - 1)
        /\ tp[1] \in members[order[PlaceOf(n, s.next, k)]]
    BY <2>3 DEF Wants
  <2>6. ASSUME NEW l \in 0..(k - 1)
        PROVE  tp[1] \notin members[order[PlaceOf(n, s.next, l)]]
    <3>1. l \in 0..(n - 1) /\ ~(k <= l)
      BY <1>1, <2>5
    <3>2. l \notin W
      BY <2>3, <3>1
    <3> QED
      BY <3>1, <3>2 DEF Wants
  <2> HIDE DEF t, n, W
  <2>7. /\ t.next = (s.next + k + 1) % n
        /\ t.assignment = [s.assignment EXCEPT ![order[PlaceOf(n, s.next, k)]] = @ \cup {tp}]
    BY <2>4
  <2> QED
    BY <1>1, <2>5, <2>6, <2>7 DEF t, n, DealtOne
<1> QED
  BY <1>2, <1>3

\* The round after the first i partitions: who has any of them asked for it, no
\* two have the same, and what somebody asked for is dealt.
DealOK(members, order, all, i, s) ==
    /\ s.next \in 0..(Len(order) - 1)
    /\ s.assignment \in [DOMAIN members -> SUBSET {all[k] : k \in 1..i}]
    /\ \A m \in DOMAIN members : \A tp \in s.assignment[m] : tp[1] \in members[m]
    /\ \A m, o \in DOMAIN members : s.assignment[m] \cap s.assignment[o] # {} => m = o
    /\ \A k \in 1..i : (\E m \in DOMAIN members : all[k][1] \in members[m]) =>
            \E m \in DOMAIN members : all[k] \in s.assignment[m]

\* Dealing a partition that was not dealt before keeps all that.
LEMMA DealKeeps ==
    ASSUME NEW members, NEW order, Lists(order, members),
           NEW all, NEW n \in Nat, NEW i \in 1..n,
           \A k, l \in 1..n : all[k] = all[l] => k = l,
           NEW s, DealOK(members, order, all, i - 1, s)
    PROVE  DealOK(members, order, all, i, Deal(members, order, s, all[i]))
<1> DEFINE tp == all[i]
           t  == Deal(members, order, s, tp)
           N  == Len(order)
           A  == s.assignment
           M  == DOMAIN members
<1>1. /\ s.next \in 0..(N - 1)
      /\ A \in [M -> SUBSET {all[k] : k \in 1..(i - 1)}]
      /\ \A m \in M : \A x \in A[m] : x[1] \in members[m]
      /\ \A m, o \in M : A[m] \cap A[o] # {} => m = o
      /\ \A k \in 1..(i - 1) : (\E m \in M : all[k][1] \in members[m]) =>
            \E m \in M : all[k] \in A[m]
  BY DEF DealOK
<1>2. N \in Nat \ {0} /\ \A j \in 1..N : order[j] \in M
  BY DEF Lists
<1>3. \/ t = s /\ \A m \in M : tp[1] \notin members[m]
      \/ \E k \in 0..(N - 1), j \in 1..N :
            /\ tp[1] \in members[order[j]]
            /\ t.next = (s.next + k + 1) % N
            /\ t.assignment = [A EXCEPT ![order[j]] = @ \cup {tp}]
  <2>1. DealtOne(members, order, s, t, tp)
    BY <1>1, DealDoes
  <2> HIDE DEF t, tp
  <2> QED
    BY <2>1 DEF DealtOne
<1>4. tp \in {all[k] : k \in 1..i} /\ \A k \in 1..(i - 1) : k \in 1..n /\ k \in 1..i /\ all[k] # tp
  BY DEF DealOK
<1>5. \A m \in M : tp \notin A[m]
  BY <1>1, <1>4
<1>6. {all[k] : k \in 1..(i - 1)} \subseteq {all[k] : k \in 1..i}
  BY <1>4
<1>7. \A k \in 1..i : k \in 1..(i - 1) \/ all[k] = tp
  OBVIOUS
<1> HIDE DEF t, tp, N, A, M
<1>8. CASE t = s /\ \A m \in M : tp[1] \notin members[m]
  <2>1. A \in [M -> SUBSET {all[k] : k \in 1..i}]
    BY <1>1, <1>6
  <2>2. \A k \in 1..i : (\E m \in M : all[k][1] \in members[m]) => \E m \in M : all[k] \in A[m]
    BY <1>1, <1>7, <1>8
  <2>3. t.assignment = A /\ t.next = s.next
    BY <1>8 DEF A
  <2> QED
    BY <1>1, <2>1, <2>2, <2>3 DEF DealOK, M, N, t, tp
<1>9. CASE \E k \in 0..(N - 1), j \in 1..N :
            /\ tp[1] \in members[order[j]]
            /\ t.next = (s.next + k + 1) % N
            /\ t.assignment = [A EXCEPT ![order[j]] = @ \cup {tp}]
  <2>1. PICK k \in 0..(N - 1), j \in 1..N :
            /\ tp[1] \in members[order[j]]
            /\ t.next = (s.next + k + 1) % N
            /\ t.assignment = [A EXCEPT ![order[j]] = @ \cup {tp}]
    BY <1>9
  <2> DEFINE who == order[j]
             B   == t.assignment
  <2>2. t.next \in 0..(N - 1)
    <3> DEFINE x == s.next + k + 1
    <3>1. x \in Nat
      BY <1>1, <1>2
    <3> HIDE DEF x
    <3>2. x % N \in 0..(N - 1)
      BY <1>2, <3>1, Division, Zenon
    <3> QED
      BY <2>1, <3>2 DEF x
  <2>3. who \in M /\ tp[1] \in members[who]
    BY <1>2, <2>1
  <2>4. /\ DOMAIN B = M
        /\ \A m \in M : B[m] = IF m = who THEN A[m] \cup {tp} ELSE A[m]
    BY <1>1, <2>1, <2>3
  <2> HIDE DEF who, B
  <2>5. B \in [M -> SUBSET {all[l] : l \in 1..i}]
    <3>1. \A m \in M : A[m] \subseteq {all[l] : l \in 1..i}
      BY <1>1, <1>6
    <3>2. \A m \in M : B[m] \subseteq {all[l] : l \in 1..i}
      BY <1>4, <2>4, <3>1
    <3>3. B = [m \in M |-> B[m]]
      <4>1. B = [A EXCEPT ![who] = @ \cup {tp}]
        BY <2>1 DEF B, who
      <4> QED
        BY <1>1, <4>1
    <3> QED
      BY <3>2, <3>3
  <2>6. \A m \in M : \A x \in B[m] : x[1] \in members[m]
    BY <1>1, <2>3, <2>4
  <2>7. \A m, o \in M : B[m] \cap B[o] # {} => m = o
    BY <1>1, <1>5, <2>4
  <2>8. ASSUME NEW l \in 1..i, \E m \in M : all[l][1] \in members[m]
        PROVE  \E m \in M : all[l] \in B[m]
    <3>1. CASE all[l] = tp
      BY <2>3, <2>4, <3>1
    <3>2. CASE all[l] # tp
      <4>1. PICK m \in M : all[l] \in A[m]
        BY <1>1, <1>7, <2>8, <3>2
      <4> QED
        BY <2>4, <4>1
    <3> QED
      BY <3>1, <3>2
  <2> QED
    BY <2>2, <2>5, <2>6, <2>7, <2>8 DEF DealOK, M, N, B, t, tp
<1> QED
  BY <1>3, <1>8, <1>9

\* While everybody wants everything the shares differ by the round under way.
EvenOK(order, s) ==
    /\ s.next \in 0..(Len(order) - 1)
    /\ \E c \in Nat : \A j \in 1..Len(order) :
        /\ IsFiniteSet(s.assignment[order[j]])
        /\ Cardinality(s.assignment[order[j]]) = c + (IF j <= s.next THEN 1 ELSE 0)

\* Dealing one more then gives it to the next in the round.
LEMMA DealKeepsEven ==
    ASSUME NEW members, NEW order, Lists(order, members), NEW tp,
           \A m \in DOMAIN members : tp[1] \in members[m],
           NEW s, EvenOK(order, s), DOMAIN s.assignment = DOMAIN members,
           \A m \in DOMAIN members : tp \notin s.assignment[m]
    PROVE  EvenOK(order, Deal(members, order, s, tp))
<1> DEFINE t == Deal(members, order, s, tp)
           n == Len(order)
           A == s.assignment
           B == t.assignment
<1>1. n \in Nat \ {0} /\ s.next \in 0..(n - 1)
  BY DEF Lists, EvenOK
<1>2. /\ \A j \in 1..n : order[j] \in DOMAIN members
      /\ \A i, j \in 1..n : order[i] = order[j] => i = j
      /\ \A m \in DOMAIN members : \E j \in 1..n : order[j] = m
  BY DEF Lists
<1>3. PlaceOf(n, s.next, 0) = s.next + 1 /\ s.next + 1 \in 1..n
  <2> DEFINE x == s.next + 0
  <2>1. x \in Nat /\ x < 2 * n /\ x < n /\ x = s.next
    BY <1>1
  <2>2. PlaceOf(n, s.next, 0) = (x % n) + 1
    BY DEF PlaceOf
  <2> HIDE DEF x
  <2>3. x % n = s.next
    BY <1>1, <2>1, Around
  <2> QED
    BY <1>1, <2>2, <2>3
<1>4. DealtOne(members, order, s, t, tp)
  BY <1>1, DealDoes
<1>5. DOMAIN members # {}
  BY <1>1, <1>2
<1>6. DOMAIN A = DOMAIN members
  OBVIOUS
<1> HIDE DEF n, t, A
<1>7. PICK k \in 0..(n - 1) :
            /\ \A l \in 0..(k - 1) : tp[1] \notin members[order[PlaceOf(n, s.next, l)]]
            /\ t.next = (s.next + k + 1) % n
            /\ t.assignment = [A EXCEPT ![order[PlaceOf(n, s.next, k)]] = @ \cup {tp}]
  BY <1>4, <1>5 DEF DealtOne, n, A
<1>8. k = 0
  <2>1. tp[1] \in members[order[PlaceOf(n, s.next, 0)]]
    BY <1>2, <1>3
  <2>2. 0 \notin 0..(k - 1)
    BY <1>7, <2>1
  <2> QED
    BY <1>1, <2>2
<1>9. t.next = IF s.next + 1 < n THEN s.next + 1 ELSE 0
  <2> DEFINE x == s.next + k + 1
  <2>1. x \in Nat /\ x < 2 * n /\ x = s.next + 1 /\ x <= n
    BY <1>1, <1>8
  <2>2. t.next = x % n
    BY <1>7
  <2> HIDE DEF x
  <2>3. x % n = IF x < n THEN x ELSE x - n
    BY <1>1, <2>1, Around
  <2> QED
    BY <1>1, <2>1, <2>2, <2>3
<1> DEFINE who == order[s.next + 1]
<1>10. /\ who \in DOMAIN members
       /\ \A m \in DOMAIN members : B[m] = IF m = who THEN A[m] \cup {tp} ELSE A[m]
  BY <1>2, <1>3, <1>6, <1>7, <1>8
<1>11. PICK c \in Nat : \A j \in 1..n :
            /\ IsFiniteSet(A[order[j]])
            /\ Cardinality(A[order[j]]) = c + (IF j <= s.next THEN 1 ELSE 0)
  BY DEF EvenOK, n, A
<1>12. tp \notin A[who]
  BY <1>10 DEF A
<1> HIDE DEF B
<1>13. ASSUME NEW j \in 1..n, j # s.next + 1
       PROVE  IsFiniteSet(B[order[j]]) /\ Cardinality(B[order[j]]) = c + (IF j <= s.next THEN 1 ELSE 0)
  <2>1. order[j] # who /\ order[j] \in DOMAIN members
    BY <1>2, <1>3, <1>13
  <2>2. B[order[j]] = A[order[j]]
    BY <1>10, <2>1
  <2> QED
    BY <1>11, <2>2
<1>14. IsFiniteSet(B[who]) /\ Cardinality(B[who]) = c + 1
  <2>1. B[who] = A[who] \cup {tp}
    BY <1>10
  <2>2. IsFiniteSet(A[who]) /\ Cardinality(A[who]) = c
    BY <1>1, <1>3, <1>11
  <2>3. IsFiniteSet(A[who] \cup {tp}) /\ Cardinality(A[who] \cup {tp}) = Cardinality(A[who]) + 1
    BY <1>12, <2>2, FS_AddElement
  <2> QED
    BY <2>1, <2>2, <2>3
<1> DEFINE d == IF s.next + 1 < n THEN c ELSE c + 1
<1>15. d \in Nat
  OBVIOUS
<1>16. ASSUME NEW j \in 1..n
       PROVE  IsFiniteSet(B[order[j]]) /\ Cardinality(B[order[j]]) = d + (IF j <= t.next THEN 1 ELSE 0)
  <2>1. CASE j = s.next + 1
    BY <1>1, <1>9, <1>14, <2>1
  <2>2. CASE j # s.next + 1
    BY <1>1, <1>9, <1>13, <2>2
  <2> QED
    BY <2>1, <2>2
<1>17. t.next \in 0..(n - 1)
  BY <1>1, <1>9
<1> HIDE DEF d
<1> QED
  BY <1>15, <1>16, <1>17 DEF EvenOK, B, t, n

-----------------------------------------------------------------------------
(* The round-robin strategy as a whole *)

\* The members in ascending order are a list of them.
LEMMA OrderLists ==
    ASSUME NEW members, IsFiniteSet(DOMAIN members), DOMAIN members \subseteq Int
    PROVE  IF DOMAIN members = {} THEN InOrder(DOMAIN members) = <<>>
           ELSE /\ Lists(InOrder(DOMAIN members), members)
                /\ InOrder(DOMAIN members) # <<>>
<1> DEFINE M     == DOMAIN members
           order == InOrder(M)
<1>1. /\ Len(order) = Cardinality(M)
      /\ Cardinality(M) \in Nat
      /\ order \in Seq(M)
      /\ \A i, j \in DOMAIN order : order[i] = order[j] => i = j
      /\ \A x \in M : \E i \in DOMAIN order : order[i] = x
  BY InOrderLists
<1>2. CASE M = {}
  <2>1. Cardinality(M) = 0
    BY <1>2, FS_EmptySet
  <2> HIDE DEF order
  <2>2. order = <<>>
    BY <1>1, <2>1
  <2> QED
    BY <1>2, <2>2 DEF order
<1>3. CASE M # {}
  <2>1. Cardinality(M) # 0
    BY <1>3, FS_EmptySet
  <2> HIDE DEF order
  <2>2. Len(order) \in Nat \ {0} /\ DOMAIN order = 1..Len(order) /\ order # <<>>
    BY <1>1, <2>1
  <2>3. Lists(order, members)
    BY <1>1, <2>2 DEF Lists
  <2> QED
    BY <1>3, <2>2, <2>3 DEF order
<1> QED
  BY <1>2, <1>3

\* The state of the round after each partition.
LEMMA RoundIsKept ==
    ASSUME NEW members, NEW order, Lists(order, members),
           NEW counts, NEW all \in Seq(Counted(counts)),
           \A k, l \in DOMAIN all : all[k] = all[l] => k = l
    PROVE  /\ DealOK(members, order, all, Len(all), DealtAfter(members, order, all)[Len(all)])
           /\ (\A k \in DOMAIN all : \A m \in DOMAIN members : all[k][1] \in members[m]) =>
                    EvenOK(order, DealtAfter(members, order, all)[Len(all)])
<1> DEFINE n     == Len(all)
           dealt == DealtAfter(members, order, all)
           T     == {i \in 0..n : DealOK(members, order, all, i, dealt[i])}
           E     == {i \in 0..n : EvenOK(order, dealt[i])}
<1>1. n \in Nat /\ DOMAIN all = 1..n
  OBVIOUS
<1>2. dealt = [i \in 0..n |-> IF i = 0 THEN Undealt(members)
                              ELSE Deal(members, order, dealt[i - 1], all[i])]
  <2> HIDE DEF dealt
  <2> QED
    BY <1>1, DealtAfterIs DEF dealt
<1> HIDE DEF n, dealt
<1>3. dealt[0] = Undealt(members)
  <2>1. 0 \in 0..n
    BY <1>1
  <2> QED
    BY <1>2, <2>1
<1>4. ASSUME NEW i \in 1..n PROVE dealt[i] = Deal(members, order, dealt[i - 1], all[i])
  <2>1. i \in 0..n /\ i # 0
    BY <1>1
  <2> QED
    BY <1>2, <2>1
<1>5. Len(order) \in Nat \ {0}
  BY DEF Lists
<1>6. /\ Undealt(members).next = 0
      /\ DOMAIN Undealt(members).assignment = DOMAIN members
      /\ \A m \in DOMAIN members : Undealt(members).assignment[m] = {}
      /\ Undealt(members).assignment \in [DOMAIN members -> SUBSET {all[k] : k \in 1..0}]
  BY DEF Undealt
<1>7. 0 \in T
  <2>1. DealOK(members, order, all, 0, Undealt(members))
    BY <1>5, <1>6 DEF DealOK
  <2> QED
    BY <1>1, <1>3, <2>1
<1>8. \A k, l \in 1..n : all[k] = all[l] => k = l
  BY <1>1
<1>9. ASSUME NEW i \in 1..n, i - 1 \in T PROVE i \in T
  <2>1. DealOK(members, order, all, i - 1, dealt[i - 1])
    BY <1>9
  <2>2. DealOK(members, order, all, i, Deal(members, order, dealt[i - 1], all[i]))
    BY <1>1, <1>8, <2>1, DealKeeps
  <2>3. i \in 0..n
    BY <1>1
  <2> QED
    BY <1>4, <2>2, <2>3
<1>10. \A i \in 0..n : i \in T
  <2> HIDE DEF T
  <2> QED
    BY <1>1, <1>7, <1>9, AllUpTo
<1>11. \A i \in 0..n : DealOK(members, order, all, i, dealt[i])
  BY <1>10
<1>12. ASSUME \A k \in DOMAIN all : \A m \in DOMAIN members : all[k][1] \in members[m]
       PROVE  EvenOK(order, dealt[n])
  <2>1. 0 \in E
    <3>1. \A j \in 1..Len(order) : order[j] \in DOMAIN members
      BY DEF Lists
    <3>2. \A j \in 1..Len(order) : Undealt(members).assignment[order[j]] = {}
      BY <1>6, <3>1
    <3>3. IsFiniteSet({}) /\ Cardinality({}) = 0
      BY FS_EmptySet
    <3>4. EvenOK(order, Undealt(members))
      <4>1. \A j \in 1..Len(order) :
                /\ IsFiniteSet(Undealt(members).assignment[order[j]])
                /\ Cardinality(Undealt(members).assignment[order[j]])
                        = 0 + (IF j <= Undealt(members).next THEN 1 ELSE 0)
        <5> TAKE j \in 1..Len(order)
        <5> DEFINE given == Undealt(members).assignment[order[j]]
        <5>1. IsFiniteSet(given) /\ Cardinality(given) = 0
          BY <3>2, <3>3, Zenon
        <5>2. ~(j <= Undealt(members).next)
          BY <1>5, <1>6
        <5> HIDE DEF given
        <5>3. Cardinality(given) = 0 + (IF j <= Undealt(members).next THEN 1 ELSE 0)
          BY <5>1, <5>2
        <5> QED
          BY <5>1, <5>3 DEF given
      <4>2. Undealt(members).next \in 0..(Len(order) - 1)
        BY <1>5, <1>6
      <4> QED
        BY <4>1, <4>2 DEF EvenOK
    <3> QED
      BY <1>1, <1>3, <3>4
  <2>2. ASSUME NEW i \in 1..n, i - 1 \in E PROVE i \in E
    <3>1. EvenOK(order, dealt[i - 1])
      BY <2>2
    <3>2. i - 1 \in 0..n /\ i \in 0..n
      BY <1>1
    <3>3. /\ DOMAIN dealt[i - 1].assignment = DOMAIN members
          /\ \A m \in DOMAIN members :
                dealt[i - 1].assignment[m] \in SUBSET {all[k] : k \in 1..(i - 1)}
      BY <1>11, <3>2 DEF DealOK
    <3>4. \A k \in 1..(i - 1) : k \in 1..n /\ k # i
      BY <1>1
    <3>5. \A m \in DOMAIN members : all[i] \notin dealt[i - 1].assignment[m]
      BY <1>8, <3>3, <3>4
    <3>6. \A m \in DOMAIN members : all[i][1] \in members[m]
      BY <1>1, <1>12
    <3>7. EvenOK(order, Deal(members, order, dealt[i - 1], all[i]))
      BY <3>1, <3>3, <3>5, <3>6, DealKeepsEven
    <3> QED
      BY <1>4, <3>2, <3>7
  <2>3. \A i \in 0..n : i \in E
    <3> HIDE DEF E
    <3> QED
      BY <1>1, <2>1, <2>2, AllUpTo
  <2> QED
    BY <1>1, <2>3
<1> QED
  BY <1>1, <1>11, <1>12 DEF n, dealt

\* Round-robin gives every partition somebody asked for to one member that asked
\* for it.
THEOREM RoundRobinHandsOutOnce ==
    ASSUME NEW members, IsFiniteSet(DOMAIN members), DOMAIN members \subseteq Int,
           NEW counts, IsFiniteSet(DOMAIN counts), DOMAIN counts \subseteq Int,
           \A topic \in DOMAIN counts : counts[topic] \in Nat
    PROVE  EveryPartitionOnce(AssignRoundRobin(members, counts), members, counts)
<1> DEFINE M     == DOMAIN members
           order == InOrder(M)
           all   == AllPartitions(counts)
           s     == DealtAfter(members, order, all)[Len(all)]
<1>1. CASE M = {}
  <2>1. AssignRoundRobin(members, counts) = [m \in M |-> {}]
    BY <1>1, OrderLists DEF AssignRoundRobin
  <2> QED
    BY <1>1, <2>1 DEF EveryPartitionOnce, Wanting
<1>2. CASE M # {}
  <2>1. Lists(order, members) /\ order # <<>>
    BY <1>2, OrderLists
  <2>2. AssignRoundRobin(members, counts) = s.assignment
    BY <2>1 DEF AssignRoundRobin
  <2>3. /\ all \in Seq(Counted(counts))
        /\ \A k, l \in DOMAIN all : all[k] = all[l] => k = l
        /\ \A tp \in Counted(counts) : \E k \in DOMAIN all : all[k] = tp
    BY AllPartitionsAre
  <2> HIDE DEF order, all
  <2>4. DealOK(members, order, all, Len(all), s)
    BY <2>1, <2>3, RoundIsKept
  <2> DEFINE A == s.assignment
  <2>5. /\ A \in [M -> SUBSET {all[k] : k \in DOMAIN all}]
        /\ \A m \in M : \A tp \in A[m] : tp[1] \in members[m]
        /\ \A m, o \in M : A[m] \cap A[o] # {} => m = o
        /\ \A k \in DOMAIN all : (\E m \in M : all[k][1] \in members[m]) => \E m \in M : all[k] \in A[m]
    <3>1. DOMAIN all = 1..Len(all)
      BY <2>3
    <3> HIDE DEF s
    <3> QED
      BY <2>4, <3>1 DEF DealOK
  <2> HIDE DEF s, A
  <2>6. ASSUME NEW topic \in DOMAIN counts, NEW p \in 0..(counts[topic] - 1),
               Wanting(members, topic) # {}
        PROVE  Cardinality(Owners(A, <<topic, p>>)) = 1
    <3>1. <<topic, p>> \in Counted(counts)
      BY DEF Counted
    <3>2. \E k \in DOMAIN all : all[k] = <<topic, p>>
      BY <2>3, <3>1
    <3>3. \E m \in M : topic \in members[m]
      BY <2>6 DEF Wanting
    <3>4. PICK m \in M : <<topic, p>> \in A[m]
      BY <2>5, <3>2, <3>3
    <3>5. \A o \in M : <<topic, p>> \in A[o] => o = m
      BY <2>5, <3>4
    <3>6. Owners(A, <<topic, p>>) = {m}
      BY <2>5, <3>4, <3>5 DEF Owners
    <3> QED
      BY <3>6, FS_Singleton, Zenon
  <2>7. ASSUME NEW m \in M, NEW tp \in A[m]
        PROVE  \E topic \in DOMAIN counts \cap members[m] :
                  \E p \in 0..(counts[topic] - 1) : tp = <<topic, p>>
    <3>1. tp \in Counted(counts)
      BY <2>3, <2>5
    <3>2. PICK topic \in DOMAIN counts : \E p \in 0..(counts[topic] - 1) : tp = <<topic, p>>
      BY <3>1 DEF Counted
    <3>3. topic \in members[m]
      BY <2>5, <3>2
    <3> QED
      BY <3>2, <3>3
  <2>8. DOMAIN A = M
    BY <2>5
  <2> QED
    BY <2>2, <2>6, <2>7, <2>8 DEF EveryPartitionOnce, A
<1> QED
  BY <1>1, <1>2

\* Where everybody asked for everything, round-robin gives no member two
\* partitions more than another.
THEOREM RoundRobinShares ==
    ASSUME NEW members, IsFiniteSet(DOMAIN members), DOMAIN members \subseteq Int,
           NEW counts, IsFiniteSet(DOMAIN counts), DOMAIN counts \subseteq Int,
           \A topic \in DOMAIN counts : counts[topic] \in Nat
    PROVE  RoundRobinIsEven(AssignRoundRobin(members, counts), members, counts)
<1> DEFINE M      == DOMAIN members
           order  == InOrder(M)
           all    == AllPartitions(counts)
           s      == DealtAfter(members, order, all)[Len(all)]
           result == AssignRoundRobin(members, counts)
<1> SUFFICES ASSUME \A topic \in DOMAIN counts : Wanting(members, topic) = M,
                    NEW a \in DOMAIN result, NEW b \in DOMAIN result
             PROVE  Cardinality(result[a]) - Cardinality(result[b]) \in {-1, 0, 1}
  BY DEF RoundRobinIsEven
<1>1. DOMAIN result = M
  BY RoundRobinHandsOutOnce DEF EveryPartitionOnce
<1>2. M # {}
  BY <1>1
<1>3. Lists(order, members) /\ order # <<>>
  BY <1>2, OrderLists
<1>4. result = s.assignment
  BY <1>3 DEF AssignRoundRobin
<1>5. all \in Seq(Counted(counts)) /\ \A k, l \in DOMAIN all : all[k] = all[l] => k = l
  BY AllPartitionsAre
<1> HIDE DEF order, all
<1>6. \A k \in DOMAIN all : \A m \in M : all[k][1] \in members[m]
  <2> SUFFICES ASSUME NEW k \in DOMAIN all, NEW m \in M PROVE all[k][1] \in members[m]
    OBVIOUS
  <2>1. all[k] \in Counted(counts)
    BY <1>5
  <2>2. PICK topic \in DOMAIN counts : \E p \in 0..(counts[topic] - 1) : all[k] = <<topic, p>>
    BY <2>1 DEF Counted
  <2>3. m \in Wanting(members, topic)
    OBVIOUS
  <2>4. topic \in members[m]
    BY <2>3 DEF Wanting
  <2> QED
    BY <2>2, <2>4
<1>7. EvenOK(order, s)
  BY <1>3, <1>5, <1>6, RoundIsKept
<1> HIDE DEF s, result
<1>8. PICK c \in Nat : \A j \in 1..Len(order) :
            Cardinality(result[order[j]]) = c + (IF j <= s.next THEN 1 ELSE 0)
  BY <1>4, <1>7 DEF EvenOK
<1>9. \A m \in M : \E j \in 1..Len(order) : order[j] = m
  BY <1>3 DEF Lists
<1>10. \A m \in M : Cardinality(result[m]) \in {c, c + 1}
  BY <1>8, <1>9
<1> QED
  BY <1>1, <1>10

-----------------------------------------------------------------------------
\* Whichever strategy the leader was started with, every partition somebody asked
\* for gets one owner, and that one asked for it.
THEOREM AssignHandsOutOnce ==
    ASSUME NEW strategy,
           NEW members, IsFiniteSet(DOMAIN members), DOMAIN members \subseteq Int,
           NEW counts, IsFiniteSet(DOMAIN counts), DOMAIN counts \subseteq Int,
           \A topic \in DOMAIN counts : counts[topic] \in Nat
    PROVE  EveryPartitionOnce(Assign(strategy, members, counts), members, counts)
BY RangeHandsOutOnce, RoundRobinHandsOutOnce DEF Assign

\* An assignment is a function from the members to sets of counted partitions.
LEMMA AssignMapsMembers ==
    ASSUME NEW strategy,
           NEW members, IsFiniteSet(DOMAIN members), DOMAIN members \subseteq Int,
           NEW counts, IsFiniteSet(DOMAIN counts), DOMAIN counts \subseteq Int,
           \A topic \in DOMAIN counts : counts[topic] \in Nat
    PROVE  Assign(strategy, members, counts) \in [DOMAIN members -> SUBSET Counted(counts)]
<1> DEFINE M      == DOMAIN members
           result == Assign(strategy, members, counts)
<1>1. EveryPartitionOnce(result, members, counts)
  BY AssignHandsOutOnce
<1>2. \A m \in M : result[m] \subseteq Counted(counts)
  BY <1>1 DEF EveryPartitionOnce, Counted
<1>3. result = [m \in M |-> result[m]]
  <2>1. CASE strategy # "roundrobin"
    BY <2>1 DEF Assign, AssignRange
  <2>2. CASE strategy = "roundrobin" /\ InOrder(M) = <<>>
    BY <2>2 DEF Assign, AssignRoundRobin
  <2>3. CASE strategy = "roundrobin" /\ InOrder(M) # <<>>
    <3> DEFINE order == InOrder(M)
               all   == AllPartitions(counts)
               s     == DealtAfter(members, order, all)[Len(all)]
    <3>1. result = s.assignment
      BY <2>3 DEF Assign, AssignRoundRobin
    <3>2. M # {}
      BY <2>3, OrderLists
    <3>3. Lists(order, members)
      BY <3>2, OrderLists
    <3>4. all \in Seq(Counted(counts)) /\ \A k, l \in DOMAIN all : all[k] = all[l] => k = l
      BY AllPartitionsAre
    <3> HIDE DEF order, all
    <3>5. DealOK(members, order, all, Len(all), s)
      BY <3>3, <3>4, RoundIsKept
    <3> HIDE DEF s, result
    <3>6. s.assignment \in [M -> SUBSET {all[k] : k \in 1..Len(all)}]
      BY <3>5 DEF DealOK
    <3> QED
      BY <3>1, <3>6
  <2> QED
    BY <2>1, <2>2, <2>3
<1> HIDE DEF result
<1> QED
  BY <1>2, <1>3 DEF result

=============================================================================
