-------------------------- MODULE AlgorithmsProofs --------------------------
(***************************************************************************)
(* Proofs about the pure algorithms: whatever members, topics, types and   *)
(* bytes Algorithms asks about, the assignors are fair and a varint keeps  *)
(* every bit; and for batches of any sizes, an index of any capacity and   *)
(* interval and any number of readers, the sparse index of Segment never   *)
(* makes a difference to what a read finds or to where a reopened segment  *)
(* ends.                                                                   *)
(*                                                                         *)
(* The loops of Varint and OffsetIndex are recursive functions that give   *)
(* the state after so many turns; each invariant of a loop is shown by the *)
(* least turn that breaks it.                                              *)
(***************************************************************************)
EXTENDS AssignorProofs, Algorithms, Segment, SequenceTheorems, WellFoundedInduction, TLAPS

-----------------------------------------------------------------------------
(* Loops *)

\* f is the state after every turn of a loop of n turns.
States(f, n, S, start, turn) ==
    f \in [0..n -> S] /\ f[0] = start /\ \A i \in 1..n : f[i] = turn[i][f[i - 1]]

\* A loop of n turns, each of which makes a state of S out of a state of S, has a
\* state after every turn.
LEMMA LoopHasStates ==
    ASSUME NEW n \in Nat, NEW S, NEW start \in S, NEW turn \in [1..n -> [S -> S]]
    PROVE  \E f : States(f, n, S, start, turn)
<1> DEFINE Is(f, k) == /\ f \in [0..k -> S] /\ f[0] = start
                       /\ \A i \in 1..k : f[i] = turn[i][f[i - 1]]
           Reached == {k \in Nat : \E f : Is(f, k)}
<1>1. 0 \in Reached
  <2>1. Is([i \in 0..0 |-> start], 0)
    OBVIOUS
  <2> QED
    BY <2>1
<1>2. ASSUME NEW k \in 1..n, k - 1 \in Reached PROVE k \in Reached
  <2>1. PICK f : Is(f, k - 1)
    BY <1>2
  <2> DEFINE g == [i \in 0..k |-> IF i = k THEN turn[k][f[k - 1]] ELSE f[i]]
  <2>2. f[k - 1] \in S /\ k \in 1..n
    BY <2>1
  <2>3. turn[k][f[k - 1]] \in S
    BY <2>2
  <2>4. \A i \in 0..k : i # k => i \in 0..(k - 1)
    OBVIOUS
  <2>5. g \in [0..k -> S] /\ g[0] = start
    BY <2>1, <2>3, <2>4
  <2>6. \A i \in 1..k : i - 1 \in 0..(k - 1) /\ g[i - 1] = f[i - 1]
    OBVIOUS
  <2>7. \A i \in 1..k : g[i] = turn[i][g[i - 1]]
    BY <2>1, <2>4, <2>6
  <2>8. Is(g, k)
    BY <2>5, <2>7
  <2> HIDE DEF g, Is
  <2> QED
    BY <2>8
<1> HIDE DEF Reached
<1>3. \A k \in 0..n : k \in Reached
  BY <1>1, <1>2, AllUpTo
<1>4. n \in Reached
  BY <1>3
<1> QED
  BY <1>4 DEF Reached, States

-----------------------------------------------------------------------------
(* Powers of two *)

\* The recursive function behind 1 << n.
Powers(n) == CHOOSE f : f = [i \in 0..n |-> IF i = 0 THEN 1 ELSE 2 * f[i - 1]]

\* It is what it says.
LEMMA PowersAre ==
    ASSUME NEW n \in Nat
    PROVE  /\ Powers(n)[0] = 1 /\ TwoTo(n) = Powers(n)[n]
           /\ \A i \in 1..n : Powers(n)[i] = 2 * Powers(n)[i - 1]
           /\ \A i \in 0..n : Powers(n)[i] \in Nat \ {0}
<1> DEFINE S == Nat \ {0}
           turn == [i \in 1..n |-> [x \in S |-> 2 * x]]
           Is(f) == f = [i \in 0..n |-> IF i = 0 THEN 1 ELSE 2 * f[i - 1]]
           g == Powers(n)
<1>1. turn \in [1..n -> [S -> S]] /\ 1 \in S
  OBVIOUS
<1>2. \A i \in 1..n, x \in S : turn[i][x] = 2 * x
  OBVIOUS
<1>3. g = CHOOSE f : Is(f)
  BY DEF Powers
<1> HIDE DEF turn, S, g
<1>4. PICK f : States(f, n, S, 1, turn)
  BY <1>1, LoopHasStates
<1>5. Is(f)
  <2>1. ASSUME NEW i \in 1..n PROVE f[i] = 2 * f[i - 1]
    <3>1. f[i - 1] \in S
      BY <1>4 DEF States
    <3> QED
      BY <1>2, <1>4, <3>1 DEF States
  <2>2. \A i \in 0..n : f[i] = IF i = 0 THEN 1 ELSE 2 * f[i - 1]
    BY <1>4, <2>1 DEF States
  <2>3. f = [i \in 0..n |-> f[i]]
    BY <1>4 DEF States
  <2> QED
    BY <2>2, <2>3
<1>6. Is(g)
  <2> HIDE DEF Is
  <2> QED
    BY <1>3, <1>5
<1>7. g[0] = 1 /\ \A i \in 1..n : g[i] = 2 * g[i - 1]
  BY <1>6
<1> DEFINE T == {i \in 0..n : g[i] \in S}
<1>8. 0 \in T
  BY <1>7 DEF S
<1>9. ASSUME NEW i \in 1..n, i - 1 \in T PROVE i \in T
  BY <1>7, <1>9 DEF S
<1> HIDE DEF T
<1>10. \A i \in 0..n : i \in T
  BY <1>8, <1>9, AllUpTo
<1>11. TwoTo(n) = g[n]
  BY DEF TwoTo, g, Powers
<1> QED
  BY <1>7, <1>10, <1>11 DEF T, S, g

\* Each power is twice the one before.
LEMMA TwoToIs ==
    /\ TwoTo(0) = 1
    /\ \A n \in Nat : TwoTo(n) \in Nat \ {0} /\ TwoTo(n + 1) = 2 * TwoTo(n)
<1>1. TwoTo(0) = 1
  BY PowersAre
<1> SUFFICES ASSUME NEW n \in Nat
             PROVE  TwoTo(n) \in Nat \ {0} /\ TwoTo(n + 1) = 2 * TwoTo(n)
  BY <1>1
<1> DEFINE f == Powers(n)
           g == Powers(n + 1)
           T == {i \in 0..n : f[i] = g[i]}
<1>2. /\ f[0] = 1 /\ TwoTo(n) = f[n] /\ f[n] \in Nat \ {0}
      /\ \A i \in 1..n : f[i] = 2 * f[i - 1]
  BY PowersAre
<1>3. /\ g[0] = 1 /\ TwoTo(n + 1) = g[n + 1]
      /\ \A i \in 1..(n + 1) : g[i] = 2 * g[i - 1]
  BY PowersAre
<1> HIDE DEF f, g
<1>4. 0 \in T
  BY <1>2, <1>3
<1>5. ASSUME NEW i \in 1..n, i - 1 \in T PROVE i \in T
  BY <1>2, <1>3, <1>5
<1> HIDE DEF T
<1>6. \A i \in 0..n : i \in T
  BY <1>4, <1>5, AllUpTo
<1>7. f[n] = g[n]
  BY <1>6 DEF T
<1>8. g[n + 1] = 2 * g[n]
  <2>1. n + 1 \in 1..(n + 1) /\ (n + 1) - 1 = n
    OBVIOUS
  <2> QED
    BY <1>3, <2>1
<1> QED
  BY <1>2, <1>3, <1>7, <1>8

\* The types of the next proofs.
LEMMA TwoToType ==
    ASSUME NEW n \in Nat
    PROVE  TwoTo(n) \in Nat \ {0}
BY TwoToIs

\* Powers of two are multiplied by adding the exponents.
LEMMA TwoToSum ==
    ASSUME NEW a \in Nat, NEW b \in Nat
    PROVE  TwoTo(a + b) = TwoTo(a) * TwoTo(b)
<1> DEFINE T == {i \in 0..b : TwoTo(a + i) = TwoTo(a) * TwoTo(i)}
<1>1. 0 \in T
  <2>1. TwoTo(a) \in Nat /\ TwoTo(0) = 1 /\ a + 0 = a
    BY TwoToIs
  <2> QED
    BY <2>1
<1>2. ASSUME NEW i \in 1..b, i - 1 \in T PROVE i \in T
  <2> DEFINE x == TwoTo(a)
             y == TwoTo(i - 1)
             z == TwoTo(i)
             s == TwoTo(a + (i - 1))
             t == TwoTo(a + i)
  <2>1. x \in Nat /\ y \in Nat
    BY TwoToType
  <2>2. z = 2 * y
    <3>1. i - 1 \in Nat /\ (i - 1) + 1 = i
      OBVIOUS
    <3> QED
      BY <3>1, TwoToIs
  <2>3. t = 2 * s
    <3>1. a + (i - 1) \in Nat /\ (a + (i - 1)) + 1 = a + i
      OBVIOUS
    <3> QED
      BY <3>1, TwoToIs
  <2>4. s = x * y
    BY <1>2
  <2> HIDE DEF x, y, z, s, t
  <2>5. t = x * z
    BY <2>1, <2>2, <2>3, <2>4
  <2> QED
    BY <2>5 DEF t, x, z
<1> HIDE DEF T
<1>3. \A i \in 0..b : i \in T
  BY <1>1, <1>2, AllUpTo
<1> QED
  BY <1>3 DEF T

\* A greater exponent gives no smaller power.
LEMMA TwoToGrows ==
    ASSUME NEW a \in Nat, NEW b \in Nat, a <= b
    PROVE  TwoTo(a) <= TwoTo(b)
<1> DEFINE x == TwoTo(a)
           y == TwoTo(b - a)
<1>1. b - a \in Nat /\ a + (b - a) = b
  OBVIOUS
<1>2. TwoTo(b) = x * y
  BY <1>1, TwoToSum
<1>3. x \in Nat \ {0} /\ y \in Nat \ {0}
  BY <1>1, TwoToType
<1> HIDE DEF x, y
<1>4. x <= x * y
  BY <1>3
<1> QED
  BY <1>2, <1>4 DEF x

-----------------------------------------------------------------------------
(* Division *)

\* A quotient is told by what it leaves.
LEMMA QuotientIs ==
    ASSUME NEW d \in Nat \ {0}, NEW q \in Nat, NEW r \in 0..(d - 1)
    PROVE  (d * q + r) \div d = q
<1> DEFINE u == d * q + r
           x == u \div d
           s == u % d
<1>1. u \in Nat
  OBVIOUS
<1>2. x \in Nat /\ s \in 0..(d - 1) /\ u = d * x + s
  <2> HIDE DEF u
  <2> QED
    BY <1>1, Division
<1>3. d * q + r = d * x + s
  BY <1>2
<1> HIDE DEF u, x, s
<1>4. ~(x >= q + 1)
  <2> SUFFICES ASSUME x >= q + 1 PROVE FALSE
    OBVIOUS
  <2>1. d * x >= d * (q + 1) /\ d * (q + 1) = d * q + d
    BY <1>2
  <2> QED
    BY <1>2, <1>3, <2>1
<1>5. ~(q >= x + 1)
  <2> SUFFICES ASSUME q >= x + 1 PROVE FALSE
    OBVIOUS
  <2>1. d * q >= d * (x + 1) /\ d * (x + 1) = d * x + d
    BY <1>2
  <2> QED
    BY <1>2, <1>3, <2>1
<1>6. x = q
  BY <1>2, <1>4, <1>5
<1> QED
  BY <1>6 DEF x, u

\* Dividing twice is dividing by the product.
LEMMA DividedTwice ==
    ASSUME NEW u \in Nat, NEW a \in Nat \ {0}, NEW b \in Nat \ {0}
    PROVE  (u \div a) \div b = u \div (a * b)
<1> DEFINE p == u \div a
           r == u % a
           q == p \div b
           s == p % b
           t == a * s + r
<1>1. p \in Nat /\ r \in 0..(a - 1) /\ u = a * p + r
  BY Division
<1>2. q \in Nat /\ s \in 0..(b - 1) /\ p = b * q + s
  <2> HIDE DEF p
  <2> QED
    BY <1>1, Division
<1> HIDE DEF p, r, q, s
<1>3. a * b \in Nat \ {0}
  OBVIOUS
<1>4. t \in Nat /\ t <= a * b - 1
  <2>1. a * s \in Nat
    BY <1>2
  <2>2. a * s <= a * (b - 1) /\ a * (b - 1) = a * b - a
    BY <1>2
  <2> QED
    BY <1>1, <1>3, <2>1, <2>2
<1>5. u = (a * b) * q + t
  <2>1. a * (b * q + s) = a * (b * q) + a * s
    BY <1>2
  <2>2. a * (b * q) = (a * b) * q
    BY <1>2
  <2>3. a * s \in Nat /\ a * (b * q) \in Nat
    BY <1>2
  <2> QED
    BY <1>1, <1>2, <2>1, <2>2, <2>3
<1>6. ((a * b) * q + t) \div (a * b) = q
  <2> DEFINE d == a * b
  <2>1. d \in Nat \ {0} /\ q \in Nat /\ t \in 0..(d - 1)
    BY <1>2, <1>3, <1>4
  <2> HIDE DEF d, t
  <2>2. (d * q + t) \div d = q
    BY <2>1, QuotientIs
  <2> QED
    BY <2>2 DEF d
<1> QED
  BY <1>5, <1>6 DEF q, p

\* A number below the divisor is its own remainder, and one divisor more does not
\* change it.
LEMMA SmallRemainder ==
    ASSUME NEW d \in Nat \ {0}, NEW n \in Nat, n < d
    PROVE  n % d = n /\ n \div d = 0 /\ (d + n) % d = n
<1>1. n % d = n
  OBVIOUS
<1>2. n \div d = 0
  <2>1. (d * 0 + n) \div d = 0
    BY QuotientIs
  <2>2. d * 0 + n = n
    OBVIOUS
  <2> QED
    BY <2>1, <2>2
<1>3. (d + n) % d = n
  <2>1. (d * 1 + n) \div d = 1
    BY QuotientIs
  <2>2. d * 1 + n = d + n /\ d + n \in Nat
    OBVIOUS
  <2>3. d + n = d * ((d + n) \div d) + ((d + n) % d) /\ (d + n) % d \in Nat
    BY <2>2, Division
  <2>4. d + n = d * 1 + ((d + n) % d)
    BY <2>1, <2>2, <2>3
  <2> QED
    BY <2>3, <2>4
<1> QED
  BY <1>1, <1>2, <1>3

\* Multiplying keeps the order.
LEMMA Scaled ==
    ASSUME NEW a \in Nat, NEW b \in Nat, NEW c \in Nat, a <= b
    PROVE  c * a <= c * b
OBVIOUS

\* As many bytes as may be read hold the type, and one less would not.
LEMMA BytesOfType ==
    ASSUME NEW width \in Nat \ {0}, NEW chunk \in Nat \ {0}
    PROVE  /\ MaxVarintBytes(width, chunk) \in Nat \ {0}
           /\ width <= chunk * MaxVarintBytes(width, chunk)
           /\ chunk * (MaxVarintBytes(width, chunk) - 1) < width
<1> DEFINE n == width + chunk - 1
           q == n \div chunk
           r == n % chunk
<1>1. n \in Nat
  OBVIOUS
<1>2. q \in Nat /\ r \in 0..(chunk - 1) /\ n = chunk * q + r
  <2> HIDE DEF n
  <2> QED
    BY <1>1, Division
<1>3. MaxVarintBytes(width, chunk) = q
  BY DEF MaxVarintBytes
<1> HIDE DEF q, r
<1>4. width + chunk - 1 = chunk * q + r /\ chunk * q \in Nat
  BY <1>2
<1>5. q # 0
  <2> SUFFICES ASSUME q = 0 PROVE FALSE
    OBVIOUS
  <2>1. chunk * q = 0
    OBVIOUS
  <2> QED
    BY <1>2, <1>4, <2>1
<1>6. chunk * (q - 1) = chunk * q - chunk
  BY <1>2
<1> QED
  BY <1>2, <1>3, <1>4, <1>5, <1>6

-----------------------------------------------------------------------------
(* Reading *)

\* The states of the loop of readBase128.
ReadStates == [read : Nat, value : Nat, at : {"more", "done", "refused"}]

\* Fields of what one turn makes.
LEMMA ReadTurnDoes ==
    ASSUME NEW bytes \in Seq(Nat), NEW pos \in Nat, NEW width \in Nat \ {0},
           NEW chunk \in Nat \ {0}, NEW so \in ReadStates
    PROVE  ReadTurn(so, bytes, pos, width, chunk) \in ReadStates
<1> DEFINE byte    == bytes[pos + so.read + 1]
           payload == byte % TwoTo(chunk)
           shift   == so.read * chunk
           next    == Wrap(so.value + payload * TwoTo(shift), width)
           stops   == \/ pos + so.read >= Len(bytes)
                      \/ so.read >= MaxVarintBytes(width, chunk)
                      \/ ~PayloadFits(payload, shift, width, chunk)
           at      == IF byte < TwoTo(chunk) THEN "done" ELSE "more"
           t       == ReadTurn(so, bytes, pos, width, chunk)
<1>1. so = [read |-> so.read, value |-> so.value, at |-> so.at]
      /\ so.read \in Nat /\ so.value \in Nat /\ so.at \in {"more", "done", "refused"}
  BY DEF ReadStates
<1>2. t = IF so.at # "more" THEN so
          ELSE IF stops THEN [so EXCEPT !.at = "refused"]
          ELSE [read |-> so.read + 1, value |-> next, at |-> at]
  BY DEF ReadTurn
<1>3. ~stops => next \in Nat
  <2> SUFFICES ASSUME ~stops PROVE next \in Nat
    OBVIOUS
  <2>1. byte \in Nat
    <3>1. pos + so.read + 1 \in 1..Len(bytes)
      BY <1>1
    <3> QED
      BY <3>1
  <2>2. TwoTo(chunk) \in Nat \ {0} /\ TwoTo(width) \in Nat \ {0}
    BY TwoToType
  <2>3. payload \in Nat
    BY <2>1, <2>2
  <2>4. shift \in Nat
    BY <1>1
  <2>5. TwoTo(shift) \in Nat
    BY <2>4, TwoToType
  <2> DEFINE power == TwoTo(shift)
             value == so.value
  <2>6. value + payload * power \in Nat
    <3>1. value \in Nat /\ payload \in Nat /\ power \in Nat
      BY <1>1, <2>3, <2>5
    <3> HIDE DEF payload, shift, power, value
    <3> QED
      BY <3>1
  <2> QED
    BY <2>2, <2>6 DEF Wrap
<1>4. at \in {"done", "more"}
  OBVIOUS
<1> HIDE DEF next, stops, at, t
<1>5. t \in ReadStates
  BY <1>1, <1>2, <1>3, <1>4 DEF ReadStates
<1> QED
  BY <1>5 DEF t

\* The loop goes from each state to the one its body makes.
LEMMA ReadAfterIs ==
    ASSUME NEW bytes \in Seq(Nat), NEW pos \in Nat, NEW width \in Nat \ {0},
           NEW chunk \in Nat \ {0}, NEW turns \in Nat
    PROVE  LET g == ReadAfter(bytes, pos, width, chunk, turns)
           IN  /\ g[0] = [read |-> 0, value |-> 0, at |-> "more"]
               /\ \A i \in 1..turns : g[i] = ReadTurn(g[i - 1], bytes, pos, width, chunk)
               /\ \A i \in 0..turns : g[i] \in ReadStates
<1> DEFINE S     == ReadStates
           start == [read |-> 0, value |-> 0, at |-> "more"]
           Turn(so) == ReadTurn(so, bytes, pos, width, chunk)
           turn  == [i \in 1..turns |-> [s \in S |-> Turn(s)]]
           g     == ReadAfter(bytes, pos, width, chunk, turns)
           Is(f) == f = [i \in 0..turns |-> IF i = 0 THEN start ELSE Turn(f[i - 1])]
<1>1. start \in S
  BY DEF ReadStates
<1>2. \A s \in S : Turn(s) \in S
  BY ReadTurnDoes
<1> HIDE DEF S, start, Turn
<1>3. turn \in [1..turns -> [S -> S]] /\ \A i \in 1..turns, s \in S : turn[i][s] = Turn(s)
  BY <1>2
<1>4. g = CHOOSE f : Is(f)
  BY DEF ReadAfter, Turn, start
<1> HIDE DEF turn, g
<1>5. PICK f : States(f, turns, S, start, turn)
  BY <1>1, <1>3, LoopHasStates
<1>6. Is(f)
  <2>1. \A i \in 1..turns : f[i] = Turn(f[i - 1])
    BY <1>3, <1>5 DEF States
  <2>2. \A i \in 0..turns : f[i] = IF i = 0 THEN start ELSE Turn(f[i - 1])
    BY <1>5, <2>1 DEF States
  <2>3. f = [i \in 0..turns |-> f[i]]
    BY <1>5 DEF States
  <2> QED
    BY <2>2, <2>3
<1>7. Is(g)
  <2> HIDE DEF Is
  <2> QED
    BY <1>4, <1>6
<1>8. g[0] = start /\ \A i \in 1..turns : g[i] = Turn(g[i - 1])
  BY <1>7
<1> DEFINE T == {i \in 0..turns : g[i] \in S}
<1>9. 0 \in T
  BY <1>1, <1>8
<1>10. ASSUME NEW i \in 1..turns, i - 1 \in T PROVE i \in T
  BY <1>2, <1>8, <1>10
<1> HIDE DEF T
<1>11. \A i \in 0..turns : i \in T
  BY <1>9, <1>10, AllUpTo
<1>12. \A i \in 0..turns : g[i] \in S
  BY <1>11 DEF T
<1> QED
  BY <1>8, <1>12 DEF g, start, Turn, S

\* The sum of the payloads, byte by byte.
LEMMA CarriedIs ==
    ASSUME NEW bytes \in Seq(Nat), NEW chunk \in Nat \ {0}
    PROVE  /\ Carried(bytes, chunk)[0] = 0
           /\ \A n \in 1..Len(bytes) :
                Carried(bytes, chunk)[n] = Carried(bytes, chunk)[n - 1]
                    + (bytes[n] % TwoTo(chunk)) * TwoTo(chunk * (n - 1))
<1> DEFINE N     == Len(bytes)
           Extra(n) == (bytes[n] % TwoTo(chunk)) * TwoTo(chunk * (n - 1))
           turn  == [n \in 1..N |-> [x \in Nat |-> x + Extra(n)]]
           g     == Carried(bytes, chunk)
           Is(f) == f = [n \in 0..N |-> IF n = 0 THEN 0 ELSE f[n - 1] + Extra(n)]
<1>1. N \in Nat /\ \A n \in 1..N : bytes[n] \in Nat
  OBVIOUS
<1>2. \A n \in 1..N : Extra(n) \in Nat
  <2> SUFFICES ASSUME NEW n \in 1..N
               PROVE  (bytes[n] % TwoTo(chunk)) * TwoTo(chunk * (n - 1)) \in Nat
    OBVIOUS
  <2>1. TwoTo(chunk) \in Nat \ {0}
    BY TwoToType
  <2>2. chunk * (n - 1) \in Nat
    BY <1>1
  <2>3. TwoTo(chunk * (n - 1)) \in Nat
    BY <2>2, TwoToType
  <2>4. bytes[n] % TwoTo(chunk) \in Nat
    BY <1>1, <2>1
  <2> QED
    BY <2>3, <2>4
<1>3. g = CHOOSE f : Is(f)
  BY DEF Carried
<1> HIDE DEF Extra, N, g
<1>5. turn \in [1..N -> [Nat -> Nat]] /\ \A n \in 1..N, x \in Nat : turn[n][x] = x + Extra(n)
  BY <1>2
<1> HIDE DEF turn
<1>6. PICK f : States(f, N, Nat, 0, turn)
  BY <1>1, <1>5, LoopHasStates
<1>7. Is(f)
  <2>1. \A n \in 1..N : f[n] = f[n - 1] + Extra(n)
    <3> SUFFICES ASSUME NEW n \in 1..N PROVE f[n] = f[n - 1] + Extra(n)
      OBVIOUS
    <3>1. f[n - 1] \in Nat
      BY <1>1, <1>6 DEF States
    <3> QED
      BY <1>5, <1>6, <3>1 DEF States
  <2>2. \A n \in 0..N : f[n] = IF n = 0 THEN 0 ELSE f[n - 1] + Extra(n)
    BY <1>6, <2>1 DEF States
  <2>3. f = [n \in 0..N |-> f[n]]
    BY <1>6 DEF States
  <2> QED
    BY <2>2, <2>3
<1>8. Is(g)
  <2> HIDE DEF Is
  <2> QED
    BY <1>3, <1>7
<1>9. g[0] = 0 /\ \A n \in 1..N : g[n] = g[n - 1] + Extra(n)
  BY <1>1, <1>8
<1> QED
  BY <1>9 DEF g, N, Extra

\* What was read so far is what the bytes carry, and a number of the type.
ReadOK(so, bytes, width, chunk) ==
    /\ so \in ReadStates
    /\ so.read <= Len(bytes) /\ so.read <= MaxVarintBytes(width, chunk)
    /\ so.value = Carried(bytes, chunk)[so.read]
    /\ so.value < TwoTo(width) /\ so.value < TwoTo(chunk * so.read)

\* Bits that fit behind those that are there stay within the type.
LEMMA PayloadStaysWithin ==
    ASSUME NEW width \in Nat \ {0}, NEW chunk \in Nat \ {0}, NEW shift \in Nat, shift < width,
           NEW value \in Nat, value < TwoTo(shift),
           NEW payload \in Nat, payload < TwoTo(chunk), PayloadFits(payload, shift, width, chunk)
    PROVE  /\ value + payload * TwoTo(shift) \in Nat
           /\ value + payload * TwoTo(shift) < TwoTo(shift + chunk)
           /\ value + payload * TwoTo(shift) < TwoTo(width)
           /\ Wrap(value + payload * TwoTo(shift), width) = value + payload * TwoTo(shift)
<1> DEFINE P   == TwoTo(shift)
           B   == TwoTo(chunk)
           W   == TwoTo(width)
           new == value + payload * P
<1>1. P \in Nat \ {0} /\ B \in Nat \ {0} /\ W \in Nat \ {0}
  BY TwoToType
<1>2. TwoTo(shift + chunk) = P * B
  BY TwoToSum
<1>3. shift + chunk <= width => TwoTo(shift + chunk) <= W
  BY TwoToGrows
<1>4. /\ width - shift \in Nat /\ shift + (width - shift) = width
      /\ TwoTo(width - shift) \in Nat \ {0}
  <2>1. width - shift \in Nat /\ shift + (width - shift) = width
    OBVIOUS
  <2> QED
    BY <2>1, TwoToType
<1> DEFINE R == TwoTo(width - shift)
<1>5. W = P * R
  BY <1>4, TwoToSum
<1>6. shift + chunk > width => payload < R
  BY DEF PayloadFits
<1>7. value < P /\ payload < B
  OBVIOUS
<1>8. R \in Nat \ {0}
  BY <1>4
<1> HIDE DEF P, B, W, R
<1>9. \A x \in Nat : payload < x => new < P * x /\ new \in Nat
  <2> SUFFICES ASSUME NEW x \in Nat, payload < x PROVE new < P * x /\ new \in Nat
    OBVIOUS
  <2>1. P * (payload + 1) <= P * x
    BY <1>1
  <2>2. P * (payload + 1) = payload * P + P /\ payload * P \in Nat
    BY <1>1
  <2>3. P * x \in Nat
    BY <1>1
  <2> QED
    BY <1>1, <1>7, <2>1, <2>2, <2>3
<1>10. new < P * B /\ new \in Nat
  BY <1>1, <1>7, <1>9
<1>11. new < W
  <2>1. CASE shift + chunk <= width
    <3>1. P * B <= W /\ P * B \in Nat
      BY <1>1, <1>2, <1>3, <2>1
    <3> HIDE DEF new
    <3> QED
      BY <1>1, <1>10, <3>1
  <2>2. CASE ~(shift + chunk <= width)
    <3>1. payload < R
      BY <1>6, <2>2
    <3> QED
      BY <1>5, <1>8, <1>9, <3>1
  <2> QED
    BY <2>1, <2>2
<1> HIDE DEF new
<1>12. Wrap(new, width) = new
  <2>1. new % W = new
    BY <1>1, <1>10, <1>11, SmallRemainder
  <2> QED
    BY <2>1 DEF Wrap, W
<1> QED
  BY <1>2, <1>10, <1>11, <1>12 DEF new, P, W

\* A turn reads one byte more and keeps that.
LEMMA ReadTurnKeeps ==
    ASSUME NEW bytes \in Seq(Nat), NEW width \in Nat \ {0}, NEW chunk \in Nat \ {0},
           NEW so, ReadOK(so, bytes, width, chunk)
    PROVE  ReadOK(ReadTurn(so, bytes, 0, width, chunk), bytes, width, chunk)
<1> DEFINE r       == so.read
           byte    == bytes[0 + r + 1]
           payload == byte % TwoTo(chunk)
           shift   == r * chunk
           sum     == so.value + payload * TwoTo(shift)
           stops   == \/ 0 + r >= Len(bytes)
                      \/ r >= MaxVarintBytes(width, chunk)
                      \/ ~PayloadFits(payload, shift, width, chunk)
           t       == ReadTurn(so, bytes, 0, width, chunk)
           Max     == MaxVarintBytes(width, chunk)
<1>1. /\ so = [read |-> r, value |-> so.value, at |-> so.at]
      /\ r \in Nat /\ so.value \in Nat
      /\ r <= Len(bytes) /\ r <= Max
      /\ so.value = Carried(bytes, chunk)[r]
      /\ so.value < TwoTo(width) /\ so.value < TwoTo(chunk * r)
  BY DEF ReadOK, ReadStates
<1>2. t \in ReadStates
  BY ReadTurnDoes DEF ReadOK
<1>3. t = IF so.at # "more" THEN so
          ELSE IF stops THEN [so EXCEPT !.at = "refused"]
          ELSE [read  |-> r + 1, value |-> Wrap(sum, width),
                at    |-> IF byte < TwoTo(chunk) THEN "done" ELSE "more"]
  BY DEF ReadTurn
<1>4. CASE so.at # "more" \/ stops
  <2> HIDE DEF stops, t
  <2>1. t.read = r /\ t.value = so.value
    BY <1>1, <1>3, <1>4
  <2> QED
    BY <1>1, <1>2, <2>1 DEF ReadOK, t
<1>5. CASE ~(so.at # "more" \/ stops)
  <2>1. Len(bytes) \in Nat /\ r + 1 <= Len(bytes) /\ r + 1 \in 1..Len(bytes) /\ 0 + r + 1 = r + 1
    BY <1>1, <1>5
  <2>2. /\ Max \in Nat \ {0} /\ chunk * (Max - 1) < width
    BY BytesOfType
  <2>3. r <= Max - 1
    <3> HIDE DEF Max
    <3>1. ~(r >= Max)
      BY <1>5 DEF Max
    <3> QED
      BY <1>1, <2>2, <3>1
  <2>4. byte \in Nat /\ byte = bytes[r + 1]
    BY <2>1
  <2>5. TwoTo(chunk) \in Nat \ {0}
    BY TwoToType
  <2>6. payload \in Nat /\ payload < TwoTo(chunk)
    BY <2>4, <2>5
  <2>7. shift \in Nat /\ shift = chunk * r /\ shift + chunk = chunk * (r + 1)
    BY <1>1
  <2>8. shift < width
    <3> HIDE DEF Max
    <3>1. chunk * r <= chunk * (Max - 1)
      <4> DEFINE k == Max - 1
      <4>1. k \in Nat /\ r \in Nat /\ r <= k
        BY <1>1, <2>2, <2>3
      <4> HIDE DEF k, r
      <4>2. chunk * r <= chunk * k
        BY <4>1, Scaled
      <4> QED
        BY <4>2 DEF k
    <3>2. chunk * (Max - 1) \in Int
      BY <2>2
    <3> HIDE DEF shift
    <3> QED
      BY <2>2, <2>7, <3>1, <3>2
  <2>9. PayloadFits(payload, shift, width, chunk)
    BY <1>5
  <2>10. so.value < TwoTo(shift)
    BY <1>1, <2>7
  <2>11. t = [read  |-> r + 1, value |-> Wrap(sum, width),
              at    |-> IF byte < TwoTo(chunk) THEN "done" ELSE "more"]
    BY <1>3, <1>5
  <2>12. Carried(bytes, chunk)[r + 1] = Carried(bytes, chunk)[r] + payload * TwoTo(shift)
    <3>1. Carried(bytes, chunk)[r + 1] = Carried(bytes, chunk)[(r + 1) - 1]
                    + (bytes[r + 1] % TwoTo(chunk)) * TwoTo(chunk * ((r + 1) - 1))
      BY <2>1, CarriedIs
    <3>2. (r + 1) - 1 = r
      BY <1>1
    <3>3. chunk * ((r + 1) - 1) = shift
      <4> HIDE DEF shift
      <4> QED
        BY <2>7, <3>2
    <3> QED
      BY <2>4, <3>1, <3>2, <3>3
  <2> HIDE DEF payload, shift, byte, stops, Max
  <2>13. /\ sum \in Nat /\ sum < TwoTo(shift + chunk) /\ sum < TwoTo(width)
         /\ Wrap(sum, width) = sum
    <3>1. so.value \in Nat
      BY <1>1
    <3> DEFINE value == so.value
    <3> HIDE DEF value
    <3>2. /\ width \in Nat \ {0} /\ chunk \in Nat \ {0} /\ shift \in Nat /\ shift < width
          /\ value \in Nat /\ value < TwoTo(shift)
          /\ payload \in Nat /\ payload < TwoTo(chunk)
          /\ PayloadFits(payload, shift, width, chunk)
      BY <2>6, <2>7, <2>8, <2>9, <2>10, <3>1 DEF value
    <3>3. /\ value + payload * TwoTo(shift) \in Nat
          /\ value + payload * TwoTo(shift) < TwoTo(shift + chunk)
          /\ value + payload * TwoTo(shift) < TwoTo(width)
          /\ Wrap(value + payload * TwoTo(shift), width) = value + payload * TwoTo(shift)
      BY ONLY <3>2, PayloadStaysWithin
    <3> QED
      BY <3>3 DEF value
  <2> HIDE DEF t
  <2>14. t.read = r + 1 /\ t.value = sum
    BY <2>11, <2>13
  <2>15. sum = Carried(bytes, chunk)[r + 1]
    BY <1>1, <2>12
  <2>16. t.read <= Max
    BY <1>1, <2>2, <2>3, <2>14
  <2> HIDE DEF sum
  <2> QED
    BY <1>2, <2>1, <2>7, <2>13, <2>14, <2>15, <2>16 DEF ReadOK, Max, t
<1> QED
  BY <1>4, <1>5

\* What a decoder makes of any bytes: a number of the unsigned type that its bytes
\* carry, or nothing.
LEMMA DecodedIsCarried ==
    ASSUME NEW bytes \in Seq(Nat), NEW width \in Nat \ {0}, NEW chunk \in Nat \ {0}
    PROVE  LET d == DecodeVarint(bytes, 0, width, chunk)
           IN  \/ d = Refused
               \/ \E n \in 0..Len(bytes) :
                    /\ Carried(bytes, chunk)[n] \in 0..(TwoTo(width) - 1)
                    /\ d = Took(UnZigZag(Carried(bytes, chunk)[n]), n)
<1> DEFINE turns == MaxVarintBytes(width, chunk) + 1
           g     == ReadAfter(bytes, 0, width, chunk, turns)
           so    == g[turns]
           d     == DecodeVarint(bytes, 0, width, chunk)
           T     == {i \in 0..turns : ReadOK(g[i], bytes, width, chunk)}
<1>1. turns \in Nat /\ MaxVarintBytes(width, chunk) \in Nat
  <2>1. MaxVarintBytes(width, chunk) \in Nat \ {0}
    BY BytesOfType
  <2> QED
    BY <2>1
<1>2. d = IF so.at = "done" THEN Took(UnZigZag(so.value), 0 + so.read) ELSE Refused
  BY DEF DecodeVarint
<1> HIDE DEF turns
<1>3. /\ g[0] = [read |-> 0, value |-> 0, at |-> "more"]
      /\ \A i \in 1..turns : g[i] = ReadTurn(g[i - 1], bytes, 0, width, chunk)
      /\ \A i \in 0..turns : g[i] \in ReadStates
  BY <1>1, ReadAfterIs
<1> HIDE DEF g
<1>4. 0 \in T
  <2>1. g[0].read = 0 /\ g[0].value = 0
    BY <1>3
  <2>2. TwoTo(width) \in Nat \ {0} /\ TwoTo(chunk * 0) \in Nat \ {0}
    <3>1. chunk * 0 \in Nat
      OBVIOUS
    <3> QED
      BY <3>1, TwoToType
  <2>3. Carried(bytes, chunk)[0] = 0
    BY CarriedIs
  <2>4. Len(bytes) \in Nat
    OBVIOUS
  <2>5. 0 \in 0..turns
    BY <1>1
  <2> QED
    BY <1>1, <1>3, <2>1, <2>2, <2>3, <2>4, <2>5 DEF ReadOK
<1>5. ASSUME NEW i \in 1..turns, i - 1 \in T PROVE i \in T
  <2>1. ReadOK(g[i - 1], bytes, width, chunk)
    BY <1>5
  <2>2. ReadOK(ReadTurn(g[i - 1], bytes, 0, width, chunk), bytes, width, chunk)
    BY <2>1, ReadTurnKeeps
  <2> QED
    BY <1>3, <2>2
<1> HIDE DEF T
<1>6. \A i \in 0..turns : i \in T
  BY <1>1, <1>4, <1>5, AllUpTo
<1>7. ReadOK(so, bytes, width, chunk)
  BY <1>1, <1>6 DEF T
<1> HIDE DEF so
<1>8. /\ so.read \in 0..Len(bytes) /\ 0 + so.read = so.read
      /\ Carried(bytes, chunk)[so.read] \in 0..(TwoTo(width) - 1)
  <2>1. TwoTo(width) \in Nat
    BY TwoToType
  <2>2. so.read \in Nat /\ so.value \in Nat
    BY <1>7 DEF ReadOK, ReadStates
  <2>3. Len(bytes) \in Nat
    OBVIOUS
  <2> QED
    BY <1>7, <2>1, <2>2, <2>3 DEF ReadOK
<1>9. so.value = Carried(bytes, chunk)[so.read]
  BY <1>7 DEF ReadOK
<1> HIDE DEF d
<1>10. d = Refused \/ d = Took(UnZigZag(Carried(bytes, chunk)[so.read]), so.read)
  BY <1>2, <1>8, <1>9
<1> QED
  BY <1>8, <1>10 DEF d

-----------------------------------------------------------------------------
(* Writing *)

\* Zigzag is a bijection from the signed to the unsigned type.
LEMMA ZigZagTurnsBack ==
    ASSUME NEW v \in Int
    PROVE  ZigZag(v) \in Nat /\ UnZigZag(ZigZag(v)) = v
BY DEF ZigZag, UnZigZag

\* Every number is the zigzag of the one it stands for.
LEMMA UnZigZagTurnsBack ==
    ASSUME NEW u \in Nat
    PROVE  UnZigZag(u) \in Int /\ ZigZag(UnZigZag(u)) = u
BY DEF ZigZag, UnZigZag

\* The zigzag of a number has no more bits than the type just if the number is
\* one of the type.
LEMMA ZigZagOfType ==
    ASSUME NEW width \in Nat \ {0}, NEW v \in Int
    PROVE  v \in Signed(width) <=> ZigZag(v) < TwoTo(width)
<1> DEFINE half == TwoTo(width - 1)
<1>1. half \in Nat /\ TwoTo(width) = 2 * half
  <2>1. width - 1 \in Nat /\ (width - 1) + 1 = width
    OBVIOUS
  <2> QED
    BY <2>1, TwoToIs
<1> HIDE DEF half
<1>2. Signed(width) = -half .. (half - 1)
  BY DEF Signed, half
<1> QED
  BY <1>1, <1>2 DEF ZigZag

\* What is left of a number after so many of its bytes.
LeftOver(u, chunk, n) == u \div TwoTo(chunk * n)

\* It is what dividing it again and again leaves.
LEMMA LeftOverIs ==
    ASSUME NEW u \in Nat, NEW chunk \in Nat \ {0}, NEW n \in Nat
    PROVE  /\ LeftOver(u, chunk, n) \in Nat
           /\ LeftOver(u, chunk, 0) = u
           /\ LeftOver(u, chunk, n + 1) = LeftOver(u, chunk, n) \div TwoTo(chunk)
           /\ LeftOver(u, chunk, n) * TwoTo(chunk * n) <= u
           /\ TwoTo(chunk * (n + 1)) = TwoTo(chunk * n) * TwoTo(chunk)
<1> DEFINE P == TwoTo(chunk * n)
           B == TwoTo(chunk)
           N == TwoTo(chunk * (n + 1))
<1>1. chunk * n \in Nat /\ chunk * (n + 1) = chunk * n + chunk /\ chunk * 0 = 0
  OBVIOUS
<1>2. P \in Nat \ {0} /\ B \in Nat \ {0}
  BY <1>1, TwoToType
<1>3. N = P * B
  BY <1>1, TwoToSum
<1>4. LeftOver(u, chunk, n) = u \div P /\ LeftOver(u, chunk, n + 1) = u \div N
  BY DEF LeftOver
<1>5. LeftOver(u, chunk, 0) = u
  <2>1. TwoTo(chunk * 0) = 1
    BY <1>1, TwoToIs
  <2> QED
    BY <2>1 DEF LeftOver
<1> HIDE DEF P, B, N
<1>6. (u \div P) \div B = u \div (P * B)
  BY <1>2, DividedTwice
<1>7. u \div P \in Nat /\ (u \div P) * P <= u
  <2> DEFINE q == u \div P
             r == u % P
  <2>1. q \in Nat /\ r \in 0..(P - 1) /\ u = P * q + r
    BY <1>2, Division
  <2> HIDE DEF q, r
  <2>2. P * q = q * P /\ P * q \in Nat
    BY <1>2, <2>1
  <2>3. q * P <= u
    BY <1>2, <2>1, <2>2
  <2> QED
    BY <2>1, <2>3 DEF q
<1> QED
  BY <1>3, <1>4, <1>5, <1>6, <1>7 DEF P, B, N

\* The states of the loop of writeBase128.
WriteStates == [left : Nat, out : Seq(Nat)]

\* A turn makes a state out of a state.
LEMMA WriteTurnDoes ==
    ASSUME NEW chunk \in Nat \ {0}, NEW so \in WriteStates
    PROVE  WriteTurn(so, chunk) \in WriteStates
<1> DEFINE B == TwoTo(chunk)
           left == so.left
<1>1. B \in Nat \ {0} /\ left \in Nat /\ so.out \in Seq(Nat)
  BY TwoToType DEF WriteStates
<1>2. WriteTurn(so, chunk) =
        IF left < B THEN so ELSE [left |-> left \div B, out |-> Append(so.out, B + (left % B))]
  BY DEF WriteTurn
<1> HIDE DEF B, left
<1>3. left \div B \in Nat /\ B + (left % B) \in Nat
  BY <1>1
<1>4. Append(so.out, B + (left % B)) \in Seq(Nat)
  BY <1>1, <1>3
<1>5. [left |-> left \div B, out |-> Append(so.out, B + (left % B))] \in WriteStates
  BY <1>3, <1>4 DEF WriteStates
<1> QED
  BY <1>2, <1>5

\* The loop goes from each state to the one its body makes.
LEMMA WrittenAfterIs ==
    ASSUME NEW u \in Nat, NEW chunk \in Nat \ {0}, NEW turns \in Nat
    PROVE  LET g == WrittenAfter(u, turns, chunk)
           IN  /\ g[0] = [left |-> u, out |-> <<>>]
               /\ \A i \in 1..turns : g[i] = WriteTurn(g[i - 1], chunk)
               /\ \A i \in 0..turns : g[i] \in WriteStates
<1> DEFINE S     == WriteStates
           start == [left |-> u, out |-> <<>>]
           Turn(so) == WriteTurn(so, chunk)
           turn  == [i \in 1..turns |-> [s \in S |-> Turn(s)]]
           g     == WrittenAfter(u, turns, chunk)
           Is(f) == f = [i \in 0..turns |-> IF i = 0 THEN start ELSE Turn(f[i - 1])]
<1>1. start \in S
  BY DEF WriteStates
<1>2. \A s \in S : Turn(s) \in S
  BY WriteTurnDoes
<1> HIDE DEF S, start, Turn
<1>3. turn \in [1..turns -> [S -> S]] /\ \A i \in 1..turns, s \in S : turn[i][s] = Turn(s)
  BY <1>2
<1>4. g = CHOOSE f : Is(f)
  BY DEF WrittenAfter, Turn, start
<1> HIDE DEF turn, g
<1>5. PICK f : States(f, turns, S, start, turn)
  BY <1>1, <1>3, LoopHasStates
<1>6. Is(f)
  <2>1. \A i \in 1..turns : f[i] = Turn(f[i - 1])
    BY <1>3, <1>5 DEF States
  <2>2. \A i \in 0..turns : f[i] = IF i = 0 THEN start ELSE Turn(f[i - 1])
    BY <1>5, <2>1 DEF States
  <2>3. f = [i \in 0..turns |-> f[i]]
    BY <1>5 DEF States
  <2> QED
    BY <2>2, <2>3
<1>7. Is(g)
  <2> HIDE DEF Is
  <2> QED
    BY <1>4, <1>6
<1>8. g[0] = start /\ \A i \in 1..turns : g[i] = Turn(g[i - 1])
  BY <1>7
<1> DEFINE T == {i \in 0..turns : g[i] \in S}
<1>9. 0 \in T
  BY <1>1, <1>8
<1>10. ASSUME NEW i \in 1..turns, i - 1 \in T PROVE i \in T
  BY <1>2, <1>8, <1>10
<1> HIDE DEF T
<1>11. \A i \in 0..turns : i \in T
  BY <1>9, <1>10, AllUpTo
<1>12. \A i \in 0..turns : g[i] \in S
  BY <1>11 DEF T
<1> QED
  BY <1>8, <1>12 DEF g, start, Turn, S

\* After i turns: a byte with its continuation bit for each group that was taken
\* off, as long as more is left than fits a byte.
WriteOK(so, u, chunk, i) ==
    /\ so \in WriteStates
    /\ Len(so.out) <= i
    /\ so.left >= TwoTo(chunk) => Len(so.out) = i
    /\ so.left = LeftOver(u, chunk, Len(so.out))
    /\ \A j \in 1..Len(so.out) :
            so.out[j] = TwoTo(chunk) + (LeftOver(u, chunk, j - 1) % TwoTo(chunk))

\* A turn that writes a byte writes the next group, and one that does not leaves
\* everything as it is.
LEMMA WriteTurnKeeps ==
    ASSUME NEW u \in Nat, NEW chunk \in Nat \ {0}, NEW i \in Nat,
           NEW so, WriteOK(so, u, chunk, i)
    PROVE  WriteOK(WriteTurn(so, chunk), u, chunk, i + 1)
<1> DEFINE B == TwoTo(chunk)
           n == Len(so.out)
           t == WriteTurn(so, chunk)
           byte == B + (so.left % B)
<1>1. so.left \in Nat /\ so.out \in Seq(Nat) /\ n \in Nat /\ t \in WriteStates
  BY WriteTurnDoes DEF WriteOK, WriteStates
<1>2. t = IF so.left < B THEN so ELSE [left |-> so.left \div B, out |-> Append(so.out, byte)]
  BY DEF WriteTurn
<1>3. /\ n <= i /\ (so.left >= B => n = i)
      /\ so.left = LeftOver(u, chunk, n)
      /\ \A j \in 1..n : so.out[j] = B + (LeftOver(u, chunk, j - 1) % B)
  BY DEF WriteOK
<1>4. B \in Nat \ {0}
  BY TwoToType
<1>5. CASE so.left < B
  <2>1. t = so
    BY <1>2, <1>5
  <2>2. ~(so.left >= B) /\ n <= i + 1
    BY <1>1, <1>3, <1>4, <1>5
  <2> HIDE DEF t
  <2> QED
    BY <1>1, <1>3, <2>1, <2>2 DEF WriteOK, t
<1>6. CASE ~(so.left < B)
  <2>1. t.left = so.left \div B /\ t.out = Append(so.out, byte)
    BY <1>2, <1>6
  <2>2. n = i
    BY <1>1, <1>3, <1>4, <1>6
  <2>3. byte \in Nat
    BY <1>1, <1>4
  <2>4. /\ Len(t.out) = n + 1 /\ t.out[n + 1] = byte
        /\ \A j \in 1..n : t.out[j] = so.out[j]
    <3> HIDE DEF byte, t
    <3> QED
      BY <1>1, <2>1, <2>3
  <2>5. t.left = LeftOver(u, chunk, n + 1)
    <3> HIDE DEF n, t
    <3>1. LeftOver(u, chunk, n + 1) = LeftOver(u, chunk, n) \div TwoTo(chunk)
      BY <1>1, LeftOverIs
    <3> QED
      BY <1>3, <2>1, <3>1
  <2> HIDE DEF t
  <2>6. ASSUME NEW j \in 1..(n + 1)
        PROVE  t.out[j] = B + (LeftOver(u, chunk, j - 1) % B)
    <3>1. CASE j = n + 1
      <4>1. j - 1 = n
        BY <1>1, <3>1
      <4> QED
        BY <1>3, <2>4, <3>1, <4>1
    <3>2. CASE j # n + 1
      <4>1. j \in 1..n
        BY <1>1, <3>2
      <4> QED
        BY <1>3, <2>4, <4>1
    <3> QED
      BY <3>1, <3>2
  <2>7. Len(t.out) <= i + 1 /\ Len(t.out) = i + 1
    BY <1>1, <2>2, <2>4
  <2> QED
    BY <1>1, <2>2, <2>4, <2>5, <2>6, <2>7 DEF WriteOK, t
<1> QED
  BY <1>5, <1>6

\* The bytes of a number: its groups from the lowest on, all but the last with
\* the continuation bit, and no more of them than are read.
IsEncoded(e, u, width, chunk) ==
    /\ e \in Seq(Nat) /\ Len(e) \in 1..MaxVarintBytes(width, chunk)
    /\ LeftOver(u, chunk, Len(e) - 1) < TwoTo(chunk)
    /\ e[Len(e)] = LeftOver(u, chunk, Len(e) - 1)
    /\ \A j \in 1..(Len(e) - 1) :
            e[j] = TwoTo(chunk) + (LeftOver(u, chunk, j - 1) % TwoTo(chunk))

\* encodeVarint() writes the groups of the zigzag, at most as many as the type has.
LEMMA EncodedIs ==
    ASSUME NEW width \in Nat \ {0}, NEW chunk \in Nat \ {0}, NEW v \in Signed(width)
    PROVE  IsEncoded(EncodeVarint(v, width, chunk), ZigZag(v), width, chunk)
<1> DEFINE u     == ZigZag(v)
           Max   == MaxVarintBytes(width, chunk)
           turns == Max - 1
           g     == WrittenAfter(u, turns, chunk)
           so    == g[turns]
           e     == EncodeVarint(v, width, chunk)
           B     == TwoTo(chunk)
           T     == {i \in 0..turns : WriteOK(g[i], u, chunk, i)}
<1>0. v \in Int
  <2>1. TwoTo(width - 1) \in Nat
    <3>1. width - 1 \in Nat
      OBVIOUS
    <3> QED
      BY <3>1, TwoToType
  <2> QED
    BY <2>1 DEF Signed
<1>1. u \in Nat /\ u < TwoTo(width)
  BY <1>0, ZigZagTurnsBack, ZigZagOfType
<1>2. Max \in Nat \ {0} /\ width <= chunk * Max
  BY BytesOfType
<1>3. e = Append(so.out, so.left)
  BY DEF EncodeVarint
<1> HIDE DEF u, Max, g, e
<1>4. turns \in Nat /\ turns + 1 = Max
  BY <1>2
<1> HIDE DEF turns
<1>5. /\ g[0] = [left |-> u, out |-> <<>>]
      /\ \A i \in 1..turns : g[i] = WriteTurn(g[i - 1], chunk)
      /\ \A i \in 0..turns : g[i] \in WriteStates
  BY <1>1, <1>4, WrittenAfterIs DEF g
<1>6. 0 \in T
  <2>1. g[0].left = u /\ g[0].out = <<>>
    BY <1>5
  <2>2. LeftOver(u, chunk, 0) = u
    BY <1>1, LeftOverIs
  <2>3. 0 \in 0..turns
    BY <1>4
  <2>4. Len(<<>>) = 0
    OBVIOUS
  <2> QED
    BY <1>5, <2>1, <2>2, <2>3, <2>4 DEF WriteOK
<1>7. ASSUME NEW i \in 1..turns, i - 1 \in T PROVE i \in T
  <2>1. WriteOK(g[i - 1], u, chunk, i - 1) /\ i - 1 \in Nat /\ (i - 1) + 1 = i
    BY <1>7
  <2>2. WriteOK(WriteTurn(g[i - 1], chunk), u, chunk, i)
    BY <1>1, <2>1, WriteTurnKeeps
  <2>3. g[i] = WriteTurn(g[i - 1], chunk) /\ i \in 0..turns
    BY <1>5
  <2> QED
    BY <2>2, <2>3
<1> HIDE DEF T
<1>8. WriteOK(so, u, chunk, turns)
  <2>1. \A i \in 0..turns : i \in T
    BY <1>4, <1>6, <1>7, AllUpTo
  <2> QED
    BY <1>4, <2>1 DEF T
<1> HIDE DEF so
<1> DEFINE n == Len(so.out)
<1>9. /\ so.left \in Nat /\ so.out \in Seq(Nat) /\ n \in Nat /\ n <= turns
      /\ so.left = LeftOver(u, chunk, n)
      /\ \A j \in 1..n : so.out[j] = B + (LeftOver(u, chunk, j - 1) % B)
  BY <1>8 DEF WriteOK, WriteStates
<1>10. so.left < B
  <2> SUFFICES ASSUME ~(so.left < B) PROVE FALSE
    OBVIOUS
  <2>1. B \in Nat \ {0}
    BY TwoToType
  <2>2. n = turns
    BY <1>8, <1>9, <2>1 DEF WriteOK
  <2> DEFINE P == TwoTo(chunk * n)
             W == TwoTo(width)
             left == so.left
  <2>3. TwoTo(chunk * Max) = P * B /\ left * P <= u
    <3>1. n + 1 = Max
      BY <1>4, <2>2
    <3> QED
      BY <1>1, <1>9, <3>1, LeftOverIs
  <2>4. W <= P * B
    <3>1. chunk * Max \in Nat
      BY <1>2
    <3>2. TwoTo(width) <= TwoTo(chunk * Max)
      BY <1>2, <3>1, TwoToGrows
    <3> QED
      BY <2>3, <3>2
  <2>5. P \in Nat \ {0} /\ W \in Nat
    <3>1. chunk * n \in Nat
      BY <1>9
    <3> QED
      BY <3>1, TwoToType
  <2>6. left \in Nat /\ B <= left /\ u < W
    BY <1>1, <1>9, <2>1
  <2> HIDE DEF P, W, B, n, left
  <2>7. P * B <= P * left
    BY <2>1, <2>5, <2>6, Scaled
  <2>8. P * left = left * P /\ P * left \in Nat /\ P * B \in Nat
    BY <2>1, <2>5, <2>6
  <2> QED
    BY <1>1, <2>3, <2>4, <2>5, <2>6, <2>7, <2>8
<1>11. /\ e \in Seq(Nat) /\ Len(e) = n + 1 /\ e[n + 1] = so.left
       /\ \A j \in 1..n : e[j] = so.out[j]
  BY <1>3, <1>9
<1>12. Len(e) \in 1..Max /\ Len(e) - 1 = n
  BY <1>4, <1>9, <1>11
<1> HIDE DEF n
<1>13. IsEncoded(e, u, width, chunk)
  <2>1. \A j \in 1..n : e[j] = B + (LeftOver(u, chunk, j - 1) % B)
    BY <1>9, <1>11
  <2> QED
    BY <1>9, <1>10, <1>11, <1>12, <2>1 DEF IsEncoded, Max
<1> QED
  BY <1>13 DEF e, u

-----------------------------------------------------------------------------
(* Writing and reading again *)

\* What the reader knows after i turns on the bytes of a number.
Halfway(u, n, chunk, i) ==
    [read  |-> i,
     value |-> u - LeftOver(u, chunk, i) * TwoTo(chunk * i),
     at    |-> IF i < n THEN "more" ELSE "done"]

\* group is the lowest group of what is left of u above P; new is left after it.
IsGroup(u, P, B, old, new, group) ==
    /\ B \in Nat \ {0} /\ P \in Nat \ {0} /\ u \in Nat /\ old \in Nat /\ new \in Nat
    /\ old = u \div P /\ new = old \div B /\ group = old % B

\* It goes where it was.
GroupGoes(u, P, B, old, new, group) ==
    /\ group \in Nat /\ group < B /\ group <= old /\ old * P <= u
    /\ u - old * P \in Nat /\ u - old * P < P
    /\ (u - old * P) + group * P = u - new * (P * B)

\* A group fits exactly between what was read before it and what is left.
LEMMA GroupTaken ==
    ASSUME NEW u, NEW P, NEW B, NEW old, NEW new, NEW group, IsGroup(u, P, B, old, new, group)
    PROVE  GroupGoes(u, P, B, old, new, group)
<1>0. /\ B \in Nat \ {0} /\ P \in Nat \ {0} /\ u \in Nat /\ old \in Nat /\ new \in Nat
      /\ old = u \div P /\ new = old \div B /\ group = old % B
  BY DEF IsGroup
<1>1. old = B * new + group /\ group \in 0..(B - 1)
  BY <1>0, Division
<1>2. B * new \in Nat
  BY <1>0
<1>3. group \in Nat /\ group < B /\ group <= old
  BY <1>0, <1>1, <1>2
<1> DEFINE d == u % P
<1>4. u = P * old + d /\ d \in 0..(P - 1)
  BY <1>0, Division
<1> HIDE DEF d
<1>5. P * old = old * P /\ P * old \in Nat
  BY <1>0
<1>6. u - old * P = d /\ d \in Nat
  BY <1>0, <1>4, <1>5
<1>7. old * P = (B * new) * P + group * P
  <2>1. P \in Nat /\ B \in Nat /\ new \in Nat
    BY <1>0
  <2> QED
    BY ONLY <1>1, <1>2, <1>3, <2>1
<1>8. (B * new) * P = new * (P * B)
  <2>1. P \in Nat /\ B \in Nat /\ new \in Nat
    BY <1>0
  <2> QED
    BY ONLY <2>1
<1>9. (B * new) * P \in Nat /\ group * P \in Nat
  BY <1>0, <1>2, <1>3
<1>10. (u - old * P) + group * P = u - new * (P * B)
  <2> DEFINE x == old * P
             y == (B * new) * P
             z == group * P
             w == new * (P * B)
  <2>1. x = y + z /\ y = w /\ y \in Nat /\ z \in Nat /\ u \in Nat
    BY <1>0, <1>7, <1>8, <1>9
  <2> HIDE DEF x, y, z, w
  <2>2. (u - x) + z = u - w
    BY <2>1
  <2> QED
    BY <2>2 DEF x, z, w
<1>11. old * P <= u /\ u - old * P < P
  BY <1>0, <1>4, <1>5, <1>6
<1> QED
  BY <1>3, <1>6, <1>10, <1>11 DEF GroupGoes

\* A group that is left of a number of the type fits where it belongs.
LEMMA GroupFits ==
    ASSUME NEW width \in Nat \ {0}, NEW shift \in Nat, shift < width, NEW u \in Nat, u < TwoTo(width),
           NEW old \in Nat, old * TwoTo(shift) <= u, NEW group \in Nat, group <= old
    PROVE  group < TwoTo(width - shift)
<1> DEFINE R == TwoTo(width - shift)
           P == TwoTo(shift)
           W == TwoTo(width)
<1>1. width - shift \in Nat /\ shift + (width - shift) = width
  OBVIOUS
<1>2. P \in Nat \ {0} /\ R \in Nat \ {0}
  BY <1>1, TwoToType
<1>3. W = P * R
  BY <1>1, TwoToSum
<1>4. u < W /\ old * P <= u
  OBVIOUS
<1> HIDE DEF R, P, W
<1>5. ~(R <= old)
  <2> SUFFICES ASSUME R <= old PROVE FALSE
    OBVIOUS
  <2>1. P * R <= P * old
    BY <1>2, Scaled
  <2>2. P * old = old * P /\ P * old \in Nat /\ P * R \in Nat
    BY <1>2
  <2> QED
    BY <1>3, <1>4, <2>1, <2>2
<1>6. group < R
  BY <1>2, <1>5
<1> QED
  BY <1>6 DEF R

\* The bytes e are those behind pos.
LiesAt(e, bytes, pos) ==
    /\ pos + Len(e) <= Len(bytes)
    /\ \A j \in 1..Len(e) : bytes[pos + j] = e[j]

\* Each byte brings its group; the last one stops the reader.
LEMMA ReadsNextGroup ==
    ASSUME NEW width \in Nat \ {0}, NEW chunk \in Nat \ {0},
           NEW u \in Nat, u < TwoTo(width), NEW e, IsEncoded(e, u, width, chunk),
           NEW bytes \in Seq(Nat), NEW pos \in Nat, LiesAt(e, bytes, pos),
           NEW r \in Nat, r < Len(e)
    PROVE  ReadTurn(Halfway(u, Len(e), chunk, r), bytes, pos, width, chunk) =
                Halfway(u, Len(e), chunk, r + 1)
<1> DEFINE n       == Len(e)
           so      == Halfway(u, n, chunk, r)
           B       == TwoTo(chunk)
           byte    == bytes[pos + r + 1]
           payload == byte % B
           shift   == r * chunk
           P       == TwoTo(chunk * r)
           old     == LeftOver(u, chunk, r)
           new     == LeftOver(u, chunk, r + 1)
           group   == old % B
           value   == u - old * P
           Max     == MaxVarintBytes(width, chunk)
           t       == ReadTurn(so, bytes, pos, width, chunk)
           at      == IF byte < B THEN "done" ELSE "more"
<1>1. Max \in Nat \ {0} /\ chunk * (Max - 1) < width
  BY BytesOfType
<1>2. n \in 1..Max /\ e \in Seq(Nat)
  BY DEF IsEncoded
<1>3. B \in Nat \ {0}
  BY TwoToType
<1>4. shift \in Nat /\ shift = chunk * r
  OBVIOUS
<1>5. P \in Nat \ {0} /\ TwoTo(shift) = P
  BY <1>4, TwoToType
<1>6. /\ old \in Nat /\ old * P <= u /\ TwoTo(chunk * (r + 1)) = P * B
      /\ new = old \div B
  BY LeftOverIs
<1>7. new \in Nat
  <2>1. r + 1 \in Nat
    OBVIOUS
  <2> QED
    BY <2>1, LeftOverIs
<1>8. old = u \div P
  BY DEF LeftOver
<1>9. /\ group \in Nat /\ group < B /\ group <= old
      /\ value \in Nat /\ value < P
      /\ value + group * P = u - new * (P * B)
  <2> DEFINE a == group
  <2>1. a = old % B
    OBVIOUS
  <2> HIDE DEF a, B, P, old, new
  <2>2. /\ a \in Nat /\ a < B /\ a <= old
        /\ u - old * P \in Nat /\ u - old * P < P
        /\ (u - old * P) + a * P = u - new * (P * B)
    <3>1. IsGroup(u, P, B, old, new, a)
      BY <1>3, <1>5, <1>6, <1>7, <1>8, <2>1 DEF IsGroup
    <3>2. GroupGoes(u, P, B, old, new, a)
      BY ONLY <3>1, GroupTaken
    <3> QED
      BY <3>2 DEF GroupGoes
  <2> QED
    BY <2>2 DEF a
<1>10. byte = e[r + 1]
  <2>1. pos + r + 1 = pos + (r + 1) /\ r + 1 \in 1..n
    BY <1>2
  <2> QED
    BY <2>1 DEF LiesAt
<1>11. r < n /\ n \in Nat
  BY <1>2
\* The payload is the next group, and the continuation bit says whether it is the
\* last one.
<1>12. payload = group /\ (byte < B <=> r + 1 = n)
  <2>1. CASE r + 1 = n
    <3>1. n - 1 = r
      <4> HIDE DEF n
      <4> QED
        BY <1>11, <2>1
    <3>2. byte = old /\ old < B
      BY <1>10, <2>1, <3>1 DEF IsEncoded
    <3> QED
      BY <2>1, <3>2
  <2>2. CASE r + 1 # n
    <3>1. r + 1 \in 1..(n - 1) /\ (r + 1) - 1 = r
      BY <1>11, <2>2
    <3>2. byte = B + group
      BY <1>10, <3>1 DEF IsEncoded
    <3> HIDE DEF group, B, byte
    <3>3. (B + group) % B = group
      BY <1>3, <1>9, SmallRemainder
    <3>4. ~(B + group < B)
      BY <1>3, <1>9
    <3> QED
      BY <2>2, <3>2, <3>3, <3>4
  <2> QED
    BY <2>1, <2>2
<1>13. r <= Max - 1 /\ ~(r >= Max)
  <2> HIDE DEF n, Max
  <2> QED
    BY <1>1, <1>2, <1>11
<1>14. shift < width
  <2> DEFINE k == Max - 1
             x == chunk * k
             y == chunk * r
  <2>1. k \in Nat
    <3> HIDE DEF Max
    <3> QED
      BY <1>1
  <2>2. r <= k /\ x < width
    BY <1>1, <1>13
  <2> HIDE DEF k
  <2>3. y <= x /\ x \in Nat /\ y \in Nat
    BY <2>1, <2>2, Scaled
  <2> HIDE DEF x, y
  <2>4. y < width
    BY <2>2, <2>3
  <2> QED
    BY <1>4, <2>4 DEF y
\* No bit is beyond the type.
<1>15. PayloadFits(group, shift, width, chunk)
  <2> HIDE DEF group, old, shift, P
  <2>1. old * TwoTo(shift) <= u
    BY <1>5, <1>6
  <2>2. group < TwoTo(width - shift)
    BY <1>4, <1>6, <1>9, <1>14, <2>1, GroupFits
  <2> QED
    BY <2>2 DEF PayloadFits
<1>16. Wrap(value + group * TwoTo(shift), width) = u - new * (P * B)
  <2> HIDE DEF group, shift, value, P, new
  <2>1. value < TwoTo(shift) /\ group < TwoTo(chunk)
    BY <1>5, <1>9
  <2>2. Wrap(value + group * TwoTo(shift), width) = value + group * TwoTo(shift)
    BY <1>4, <1>9, <1>14, <1>15, <2>1, PayloadStaysWithin
  <2> QED
    BY <1>5, <1>9, <2>2
<1>17. so = [read |-> r, value |-> value, at |-> "more"]
  BY <1>11 DEF Halfway
<1>18. ~(pos + r >= Len(bytes))
  <2>1. Len(bytes) \in Nat /\ pos + n <= Len(bytes)
    BY DEF LiesAt
  <2> HIDE DEF n
  <2> QED
    BY <1>11, <2>1
<1>19. t = [read |-> r + 1, value |-> u - new * (P * B), at |-> at]
  <2>1. so.read = r /\ so.value = value /\ so.at = "more"
    BY <1>17
  <2> HIDE DEF so, value, group, n
  <2>2. t = IF so.at # "more" THEN so
            ELSE IF \/ pos + so.read >= Len(bytes)
                    \/ so.read >= MaxVarintBytes(width, chunk)
                    \/ ~PayloadFits(bytes[pos + so.read + 1] % TwoTo(chunk), so.read * chunk, width, chunk)
                 THEN [so EXCEPT !.at = "refused"]
            ELSE [read  |-> so.read + 1,
                  value |-> Wrap(so.value + (bytes[pos + so.read + 1] % TwoTo(chunk))
                                                * TwoTo(so.read * chunk), width),
                  at    |-> IF bytes[pos + so.read + 1] < TwoTo(chunk) THEN "done" ELSE "more"]
    BY DEF ReadTurn
  <2>3. PayloadFits(payload, shift, width, chunk)
    BY <1>12, <1>15
  <2>4. t = [read |-> r + 1, value |-> Wrap(value + payload * TwoTo(shift), width), at |-> at]
    BY <1>13, <1>18, <2>1, <2>2, <2>3
  <2> HIDE DEF payload, shift, at, t
  <2> QED
    BY <1>12, <1>16, <2>4
<1>20. Halfway(u, n, chunk, r + 1) =
            [read |-> r + 1, value |-> u - new * (P * B), at |-> IF r + 1 < n THEN "more" ELSE "done"]
  BY <1>6 DEF Halfway
<1>21. at = IF r + 1 < n THEN "more" ELSE "done"
  <2> HIDE DEF n, byte, B
  <2> QED
    BY <1>11, <1>12
<1> QED
  BY <1>19, <1>20, <1>21

\* Whatever comes before and after them, the bytes of a number are read as the
\* number, and reading goes on behind them.
THEOREM VarintRoundTrip ==
    ASSUME NEW width \in Nat \ {0}, NEW chunk \in Nat \ {0}, NEW v \in Signed(width),
           NEW bytes \in Seq(Nat), NEW pos \in Nat,
           pos + Len(EncodeVarint(v, width, chunk)) <= Len(bytes),
           \A j \in 1..Len(EncodeVarint(v, width, chunk)) :
                bytes[pos + j] = EncodeVarint(v, width, chunk)[j]
    PROVE  DecodeVarint(bytes, pos, width, chunk) =
                Took(v, pos + Len(EncodeVarint(v, width, chunk)))
<1> DEFINE e     == EncodeVarint(v, width, chunk)
           u     == ZigZag(v)
           n     == Len(e)
           Max   == MaxVarintBytes(width, chunk)
           turns == Max + 1
           g     == ReadAfter(bytes, pos, width, chunk, turns)
           T     == {i \in 0..turns : i <= n => g[i] = Halfway(u, n, chunk, i)}
           U     == {i \in 0..turns : n <= i => g[i] = Halfway(u, n, chunk, n)}
<1>1. v \in Int
  <2>1. TwoTo(width - 1) \in Nat
    <3>1. width - 1 \in Nat
      OBVIOUS
    <3> QED
      BY <3>1, TwoToType
  <2> QED
    BY <2>1 DEF Signed
<1>2. u \in Nat /\ u < TwoTo(width) /\ UnZigZag(u) = v
  BY <1>1, ZigZagTurnsBack, ZigZagOfType
<1>3. IsEncoded(e, u, width, chunk)
  BY EncodedIs
<1>4. pos + n <= Len(bytes) /\ \A j \in 1..n : bytes[pos + j] = e[j]
  OBVIOUS
<1>5. DecodeVarint(bytes, pos, width, chunk) =
        IF g[turns].at = "done" THEN Took(UnZigZag(g[turns].value), pos + g[turns].read)
        ELSE Refused
  BY DEF DecodeVarint
<1> HIDE DEF e, u
<1>6. n \in 1..Max /\ turns \in Nat /\ Max \in Nat /\ n \in Nat
  <2>1. Max \in Nat \ {0}
    BY BytesOfType
  <2>2. n \in 1..Max
    BY <1>3 DEF IsEncoded
  <2> QED
    BY <2>1, <2>2
<1> HIDE DEF turns
<1>7. /\ g[0] = [read |-> 0, value |-> 0, at |-> "more"]
      /\ \A i \in 1..turns : g[i] = ReadTurn(g[i - 1], bytes, pos, width, chunk)
      /\ \A i \in 0..turns : g[i] \in ReadStates
  BY <1>6, ReadAfterIs
<1> HIDE DEF Max, n, g
<1>8. 0 \in T
  <2>1. LeftOver(u, chunk, 0) = u
    BY <1>2, LeftOverIs
  <2>2. TwoTo(chunk * 0) = 1
    <3>1. chunk * 0 = 0
      OBVIOUS
    <3> QED
      BY <3>1, TwoToIs
  <2>3. u - u * 1 = 0
    BY <1>2
  <2>4. 0 < n /\ 0 \in 0..turns
    BY <1>6
  <2>5. Halfway(u, n, chunk, 0) = [read |-> 0, value |-> 0, at |-> "more"]
    BY <2>1, <2>2, <2>3, <2>4 DEF Halfway
  <2> QED
    BY <1>7, <2>4, <2>5
<1>9. ASSUME NEW i \in 1..turns, i - 1 \in T PROVE i \in T
  <2> SUFFICES ASSUME i <= n PROVE g[i] = Halfway(u, n, chunk, i)
    OBVIOUS
  <2>1. i \in 1..n /\ i - 1 <= n
    BY <1>6
  <2>2. g[i - 1] = Halfway(u, n, chunk, i - 1)
    BY <1>9, <2>1
  <2>3. ReadTurn(Halfway(u, n, chunk, i - 1), bytes, pos, width, chunk) = Halfway(u, n, chunk, i)
    <3> DEFINE r == i - 1
    <3>1. r \in Nat /\ r < n /\ r + 1 = i
      BY <1>6, <2>1
    <3> HIDE DEF r
    <3>2. ReadTurn(Halfway(u, n, chunk, r), bytes, pos, width, chunk) = Halfway(u, n, chunk, r + 1)
      <4>1. LiesAt(e, bytes, pos) /\ n = Len(e)
        BY <1>4 DEF LiesAt, n
      <4>2. /\ width \in Nat \ {0} /\ chunk \in Nat \ {0} /\ u \in Nat /\ u < TwoTo(width)
            /\ bytes \in Seq(Nat) /\ pos \in Nat
        BY <1>2
      <4> QED
        BY ONLY <1>3, <3>1, <4>1, <4>2, ReadsNextGroup
    <3> QED
      BY <3>1, <3>2 DEF r
  <2> QED
    BY <1>7, <2>2, <2>3
<1>10. \A i \in 0..turns : i \in T
  <2> HIDE DEF T
  <2> QED
    BY <1>6, <1>8, <1>9, AllUpTo
<1>11. g[n] = Halfway(u, n, chunk, n) /\ n \in 0..turns
  BY <1>6, <1>10 DEF turns
<1>12. 0 \in U
  BY <1>6
<1>13. ASSUME NEW i \in 1..turns, i - 1 \in U PROVE i \in U
  <2> SUFFICES ASSUME n <= i PROVE g[i] = Halfway(u, n, chunk, n)
    OBVIOUS
  <2>1. CASE n = i
    BY <1>11, <2>1
  <2>2. CASE n # i
    <3>1. n <= i - 1
      BY <1>6, <2>2
    <3>2. g[i - 1] = Halfway(u, n, chunk, n)
      BY <1>13, <3>1
    <3>3. Halfway(u, n, chunk, n).at = "done"
      BY <1>6 DEF Halfway
    <3>4. ReadTurn(g[i - 1], bytes, pos, width, chunk) = g[i - 1]
      BY <3>2, <3>3 DEF ReadTurn
    <3> QED
      BY <1>7, <3>2, <3>4
  <2> QED
    BY <2>1, <2>2
<1>14. \A i \in 0..turns : i \in U
  <2> HIDE DEF U
  <2> QED
    BY <1>6, <1>12, <1>13, AllUpTo
<1>15. g[turns] = Halfway(u, n, chunk, n)
  BY <1>6, <1>14 DEF turns
<1>16. LeftOver(u, chunk, n) = 0
  <2>1. LeftOver(u, chunk, n - 1) < TwoTo(chunk) /\ n - 1 \in Nat /\ (n - 1) + 1 = n
    BY <1>3, <1>6 DEF IsEncoded, n
  <2>2. /\ LeftOver(u, chunk, n) = LeftOver(u, chunk, n - 1) \div TwoTo(chunk)
        /\ LeftOver(u, chunk, n - 1) \in Nat
    BY <1>2, <2>1, LeftOverIs
  <2>3. TwoTo(chunk) \in Nat \ {0}
    BY TwoToType
  <2> QED
    BY <2>1, <2>2, <2>3, SmallRemainder
<1>17. Halfway(u, n, chunk, n) = [read |-> n, value |-> u, at |-> "done"]
  <2> DEFINE P == TwoTo(chunk * n)
  <2>1. P \in Nat
    <3>1. chunk * n \in Nat
      BY <1>6
    <3> QED
      BY <3>1, TwoToType
  <2> HIDE DEF P
  <2>2. u - 0 * P = u
    BY <1>2, <2>1
  <2> QED
    BY <1>6, <1>16, <2>2 DEF Halfway, P
<1> QED
  BY <1>2, <1>5, <1>15, <1>17 DEF n, e

-----------------------------------------------------------------------------
(* The bench *)

\* What the answer is once there is one.
AlgorithmsInv ==
    \/ /\ answer = Unanswered
       /\ AskAssignor \/ AskVarint
    \/ /\ AskAssignor
       /\ answer = <<Assign(question.strategy, question.members, question.counts)>>
    \/ /\ AskVarint
       /\ answer = <<DecodeVarint(question, 0, VarintWidth, VarintChunk)>>

\* A bench only ever holds a question of its inputs and the answer to it.
LEMMA AnsweredAsAsked == AlgorithmsSpec => []AlgorithmsInv
<1>1. AlgorithmsInit => AlgorithmsInv
  BY DEF AlgorithmsInit, AlgorithmsInv
<1>2. AlgorithmsInv /\ [AlgorithmsNext]_<<bench, question, answer>> => AlgorithmsInv'
  <2> SUFFICES ASSUME AlgorithmsInv, [AlgorithmsNext]_<<bench, question, answer>>
               PROVE  AlgorithmsInv'
    OBVIOUS
  <2>1. AskAssignor => bench = "assign"
    BY DEF AskAssignor
  <2>2. AskVarint => bench = "varint"
    BY DEF AskVarint
  <2>3. CASE UNCHANGED <<bench, question, answer>>
    BY <2>3 DEF AlgorithmsInv, AskAssignor, AskVarint, Unanswered
  <2>4. CASE ComputeAssignment
    <3>1. /\ bench = "assign" /\ answer = Unanswered
          /\ bench' = bench /\ question' = question
          /\ answer' = <<Assign(question.strategy, question.members, question.counts)>>
      BY <2>4 DEF ComputeAssignment, Answers
    <3>2. AskAssignor
      BY <2>2, <3>1 DEF AlgorithmsInv, Unanswered
    <3>3. AskAssignor'
      BY <3>1, <3>2 DEF AskAssignor
    <3> QED
      BY <3>1, <3>3 DEF AlgorithmsInv
  <2>5. CASE ComputeVarint
    <3>1. /\ bench = "varint" /\ answer = Unanswered
          /\ bench' = bench /\ question' = question
          /\ answer' = <<DecodeVarint(question, 0, VarintWidth, VarintChunk)>>
      BY <2>5 DEF ComputeVarint, Answers
    <3>2. AskVarint
      BY <2>1, <3>1 DEF AlgorithmsInv, Unanswered
    <3>3. AskVarint'
      BY <3>1, <3>2 DEF AskVarint
    <3> QED
      BY <3>1, <3>3 DEF AlgorithmsInv
  <2> QED
    BY <2>3, <2>4, <2>5 DEF AlgorithmsNext
<1> QED
  BY <1>1, <1>2, PTL DEF AlgorithmsSpec

\* For any members, topics and counts, either strategy hands out every wanted
\* partition exactly once and evenly.
THEOREM AssignorsAreFair == AlgorithmsSpec => []FairPartition
<1>1. AlgorithmsInv => FairPartition
  <2> SUFFICES ASSUME AlgorithmsInv, bench = "assign", answer # Unanswered
               PROVE  LET members == question.members
                          counts  == question.counts
                      IN  /\ EveryPartitionOnce(Result, members, counts)
                          /\ question.strategy = "range" =>
                                RangeIsContiguous(Result, members, counts)
                          /\ question.strategy = "roundrobin" =>
                                RoundRobinIsEven(Result, members, counts)
    BY DEF FairPartition, Answered
  <2> DEFINE members == question.members
             counts  == question.counts
             strategy == question.strategy
  <2>1. AskAssignor /\ answer = <<Assign(strategy, members, counts)>>
    BY DEF AlgorithmsInv, AskVarint
  <2>2. Result = Assign(strategy, members, counts)
    BY <2>1 DEF Result
  <2>3. members \in Maps(Ids, SUBSET TopicIds) /\ counts \in Maps(TopicIds, 0..MaxCount)
    BY <2>1 DEF AskAssignor
  <2>4. DOMAIN members \subseteq Ids
    BY <2>3 DEF Maps
  <2>5. DOMAIN counts \subseteq TopicIds /\ \A topic \in DOMAIN counts : counts[topic] \in 0..MaxCount
    BY <2>3 DEF Maps
  <2> HIDE DEF members, counts, strategy
  <2>6. /\ IsFiniteSet(DOMAIN members) /\ DOMAIN members \subseteq Int
        /\ IsFiniteSet(DOMAIN counts) /\ DOMAIN counts \subseteq Int
    BY <2>4, <2>5, AlgorithmsAssumption, FS_Subset
  <2>7. \A topic \in DOMAIN counts : counts[topic] \in Nat
    BY <2>5, AlgorithmsAssumption
  <2>8. EveryPartitionOnce(Result, members, counts)
    BY <2>2, <2>6, <2>7, AssignHandsOutOnce
  <2>9. strategy = "range" => RangeIsContiguous(Result, members, counts)
    BY <2>2, <2>6, <2>7, RangeIsInBlocks DEF Assign
  <2>10. strategy = "roundrobin" => RoundRobinIsEven(Result, members, counts)
    BY <2>2, <2>6, <2>7, RoundRobinShares DEF Assign
  <2> QED
    BY <2>8, <2>9, <2>10 DEF members, counts, strategy
<1> QED
  BY <1>1, AnsweredAsAsked, PTL

\* For types of any width in groups of any number of bits: what is read from any
\* bytes is the number they carry, one of the type, and survives being written.
THEOREM VarintsKeepEveryBit == AlgorithmsSpec => []VarintKeepsEveryBit
<1>1. AlgorithmsInv => VarintKeepsEveryBit
  <2> SUFFICES ASSUME AlgorithmsInv, bench = "varint", answer # Unanswered, Result.ok
               PROVE  /\ ZigZag(Result.value) = Carried(question, VarintChunk)[Result.pos]
                      /\ Result.value \in Signed(VarintWidth)
                      /\ DecodeVarint(EncodeVarint(Result.value, VarintWidth, VarintChunk), 0,
                                      VarintWidth, VarintChunk).ok
                      /\ DecodeVarint(EncodeVarint(Result.value, VarintWidth, VarintChunk), 0,
                                      VarintWidth, VarintChunk).value = Result.value
    BY DEF VarintKeepsEveryBit, Answered
  <2> DEFINE d == DecodeVarint(question, 0, VarintWidth, VarintChunk)
             v == Result.value
             e == EncodeVarint(v, VarintWidth, VarintChunk)
  <2>1. VarintWidth \in Nat \ {0} /\ VarintChunk \in Nat \ {0}
    BY AlgorithmsAssumption
  <2>2. AskVarint /\ answer = <<d>>
    BY DEF AlgorithmsInv, AskAssignor
  <2>3. Result = d
    BY <2>2 DEF Result
  <2>4. question \in Seq(Nat)
    <3>1. PICK n \in 0..(MaxVarintBytes(VarintWidth, VarintChunk) + 1) :
                question \in [1..n -> 0..(2 * TwoTo(VarintChunk) - 1)]
      BY <2>2 DEF AskVarint, VarintInputs
    <3>2. question \in [1..n -> Nat] /\ n \in Nat
      BY <3>1
    <3> QED
      BY <3>2
  <2> HIDE DEF d
  <2>5. PICK n \in 0..Len(question) :
                /\ Carried(question, VarintChunk)[n] \in 0..(TwoTo(VarintWidth) - 1)
                /\ d = Took(UnZigZag(Carried(question, VarintChunk)[n]), n)
    <3>1. d # Refused
      BY <2>3 DEF Refused
    <3> QED
      BY <2>1, <2>4, <3>1, DecodedIsCarried DEF d
  <2> DEFINE u == Carried(question, VarintChunk)[n]
  <2>6. v = UnZigZag(u) /\ Result.pos = n
    BY <2>3, <2>5 DEF Took
  <2>7. TwoTo(VarintWidth) \in Nat
    BY <2>1, TwoToType
  <2>8. u \in Nat /\ u < TwoTo(VarintWidth)
    BY <2>5, <2>7
  <2> HIDE DEF u, v
  <2>9. v \in Int /\ ZigZag(v) = u
    BY <2>6, <2>8, UnZigZagTurnsBack
  <2>10. v \in Signed(VarintWidth)
    BY <2>1, <2>8, <2>9, ZigZagOfType
  <2>11. e \in Seq(Nat) /\ 0 + Len(e) = Len(e) /\ Len(e) <= Len(e)
    <3>1. e \in Seq(Nat)
      BY <2>1, <2>10, EncodedIs DEF IsEncoded
    <3> HIDE DEF e
    <3> QED
      BY <3>1
  <2>12. \A j \in 1..Len(e) : e[0 + j] = e[j]
    OBVIOUS
  <2>13. DecodeVarint(e, 0, VarintWidth, VarintChunk) = Took(v, 0 + Len(e))
    BY <2>1, <2>10, <2>11, <2>12, VarintRoundTrip
  <2> HIDE DEF e
  <2>14. DecodeVarint(e, 0, VarintWidth, VarintChunk).ok /\ DecodeVarint(e, 0, VarintWidth, VarintChunk).value = v
    BY <2>13 DEF Took
  <2> QED
    BY <2>6, <2>9, <2>10, <2>14 DEF u, v, e
<1> QED
  BY <1>1, AnsweredAsAsked, PTL

-----------------------------------------------------------------------------
(* Bytes *)

BatchSet == [first : Nat, last : Nat, size : Nat \ {0}]

\* Every batch begins where the ones before it end.
LEMMA BytesAre ==
    ASSUME NEW B \in Seq(BatchSet)
    PROVE  /\ BytesAfter(B) \in [0..Len(B) -> Nat]
           /\ BytesAfter(B)[0] = 0
           /\ \A n \in 1..Len(B) : BytesAfter(B)[n] = BytesAfter(B)[n - 1] + B[n].size
           /\ \A m, n \in 0..Len(B) : m < n => BytesAfter(B)[m] < BytesAfter(B)[n]
<1> DEFINE turn == [n \in 1..Len(B) |-> [x \in Nat |-> x + B[n].size]]
           bytes == BytesAfter(B)
           Is(f) == f = [n \in 0..Len(B) |-> IF n = 0 THEN 0 ELSE f[n - 1] + B[n].size]
<1>1. Len(B) \in Nat /\ \A n \in 1..Len(B) : B[n].size \in Nat \ {0}
  <2>1. Len(B) \in Nat /\ \A n \in 1..Len(B) : B[n] \in BatchSet
    OBVIOUS
  <2> QED
    BY <2>1 DEF BatchSet
<1>2. turn \in [1..Len(B) -> [Nat -> Nat]]
  BY <1>1
<1>3. \A n \in 1..Len(B), x \in Nat : turn[n][x] = x + B[n].size
  OBVIOUS
<1> HIDE DEF turn
<1>4. PICK f : States(f, Len(B), Nat, 0, turn)
  BY <1>1, <1>2, LoopHasStates
<1>5. Is(f)
  <2>1. ASSUME NEW n \in 1..Len(B) PROVE f[n] = f[n - 1] + B[n].size
    <3>1. n - 1 \in 0..Len(B)
      BY <1>1
    <3>2. f[n - 1] \in Nat
      BY <1>4, <3>1 DEF States
    <3> QED
      BY <1>3, <1>4, <3>2 DEF States
  <2>2. \A n \in 0..Len(B) : f[n] = IF n = 0 THEN 0 ELSE f[n - 1] + B[n].size
    BY <1>1, <1>4, <2>1 DEF States
  <2>3. f = [n \in 0..Len(B) |-> f[n]]
    BY <1>4 DEF States
  <2> QED
    BY <2>2, <2>3
<1>6. Is(bytes)
  <2>1. bytes = CHOOSE g : Is(g)
    BY DEF BytesAfter
  <2> HIDE DEF bytes, Is
  <2> QED
    BY <1>5, <2>1
<1> HIDE DEF bytes
<1>7. /\ bytes[0] = 0
      /\ \A n \in 1..Len(B) : bytes[n] = bytes[n - 1] + B[n].size
  BY <1>1, <1>6
<1> DEFINE T == {n \in 0..Len(B) : bytes[n] \in Nat}
<1>8. \A n \in 0..Len(B) : n \in T
  <2>1. 0 \in T
    BY <1>1, <1>7
  <2>2. \A n \in 1..Len(B) : n - 1 \in T => n \in T
    <3> SUFFICES ASSUME NEW n \in 1..Len(B), n - 1 \in T PROVE n \in T
      OBVIOUS
    <3>1. bytes[n - 1] \in Nat /\ B[n].size \in Nat /\ n \in 0..Len(B)
      BY <1>1
    <3>2. bytes[n] = bytes[n - 1] + B[n].size
      BY <1>7
    <3> QED
      BY <3>1, <3>2
  <2> HIDE DEF T
  <2> QED
    BY <1>1, <2>1, <2>2, AllUpTo
<1>9. bytes \in [0..Len(B) -> Nat]
  BY <1>6, <1>8
<1> DEFINE U == {n \in 0..Len(B) : \A m \in 0..Len(B) : m < n => bytes[m] < bytes[n]}
<1>10. \A n \in 0..Len(B) : n \in U
  <2>1. 0 \in U
    BY <1>1
  <2>2. ASSUME NEW n \in 1..Len(B), n - 1 \in U PROVE n \in U
    <3>0. n - 1 \in 0..Len(B) /\ n \in 0..Len(B)
      BY <1>1
    <3>1. bytes[n - 1] \in Nat /\ bytes[n] \in Nat /\ bytes[n - 1] < bytes[n]
      <4>1. bytes[n - 1] \in Nat
        BY <1>9, <3>0
      <4> QED
        BY <1>1, <1>7, <4>1
    <3>2. ASSUME NEW m \in 0..Len(B), m < n PROVE bytes[m] < bytes[n]
      <4>1. m = n - 1 \/ bytes[m] < bytes[n - 1]
        BY <1>1, <2>2, <3>2
      <4> QED
        BY <1>9, <3>0, <3>1, <4>1
    <3> QED
      BY <3>2
  <2> HIDE DEF U
  <2> QED
    BY <1>1, <2>1, <2>2, AllUpTo
<1> QED
  BY <1>7, <1>9, <1>10 DEF bytes

\* Batches of the same sizes begin at the same places.
LEMMA BytesOfPrefix ==
    ASSUME NEW B \in Seq(BatchSet), NEW C \in Seq(BatchSet), NEW k \in 0..Len(B), k <= Len(C),
           \A i \in 1..k : B[i].size = C[i].size
    PROVE  \A i \in 0..k : BytesAfter(B)[i] = BytesAfter(C)[i]
<1> DEFINE T == {i \in 0..k : BytesAfter(B)[i] = BytesAfter(C)[i]}
<1>1. k \in Nat /\ Len(B) \in Nat /\ Len(C) \in Nat
  OBVIOUS
<1>2. 0 \in T
  BY <1>1, BytesAre
<1>3. ASSUME NEW i \in 1..k, i - 1 \in T PROVE i \in T
  <2>1. i \in 1..Len(B) /\ i \in 1..Len(C) /\ i \in 0..k
    BY <1>1
  <2>2. BytesAfter(B)[i] = BytesAfter(B)[i - 1] + B[i].size
    BY <2>1, BytesAre
  <2>3. BytesAfter(C)[i] = BytesAfter(C)[i - 1] + C[i].size
    BY <2>1, BytesAre
  <2> QED
    BY <1>3, <2>1, <2>2, <2>3
<1> HIDE DEF T
<1>4. \A i \in 0..k : i \in T
  BY <1>1, <1>2, <1>3, AllUpTo
<1> QED
  BY <1>4 DEF T

\* A batch that is appended begins where the log ended, and moves no other.
LEMMA BytesOfAppend ==
    ASSUME NEW B \in Seq(BatchSet), NEW b \in BatchSet
    PROVE  /\ Append(B, b) \in Seq(BatchSet) /\ Len(Append(B, b)) = Len(B) + 1
           /\ \A i \in 1..Len(B) : Append(B, b)[i] = B[i]
           /\ Append(B, b)[Len(B) + 1] = b
           /\ \A i \in 0..Len(B) : BytesAfter(Append(B, b))[i] = BytesAfter(B)[i]
           /\ SizeOf(B) \in Nat
           /\ SizeOf(Append(B, b)) = SizeOf(B) + b.size
<1> DEFINE C == Append(B, b)
<1>1. /\ C \in Seq(BatchSet) /\ Len(C) = Len(B) + 1 /\ Len(B) \in Nat
      /\ \A i \in 1..Len(B) : C[i] = B[i]
      /\ C[Len(B) + 1] = b
  OBVIOUS
<1> HIDE DEF C
<1>2. \A i \in 0..Len(B) : BytesAfter(B)[i] = BytesAfter(C)[i]
  <2>1. Len(B) \in 0..Len(B) /\ Len(B) <= Len(C) /\ \A i \in 1..Len(B) : B[i].size = C[i].size
    BY <1>1
  <2> QED
    BY <1>1, <2>1, BytesOfPrefix
<1>3. Len(C) \in 1..Len(C) /\ Len(C) - 1 = Len(B) /\ Len(B) \in 0..Len(B)
  BY <1>1
<1>4. BytesAfter(C)[Len(C)] = BytesAfter(C)[Len(B)] + b.size
  <2>1. BytesAfter(C)[Len(C)] = BytesAfter(C)[Len(C) - 1] + C[Len(C)].size
    BY <1>1, <1>3, BytesAre
  <2> QED
    BY <1>1, <1>3, <2>1
<1>5. SizeOf(C) = SizeOf(B) + b.size
  BY <1>2, <1>3, <1>4 DEF SizeOf
<1>6. SizeOf(B) \in Nat
  BY <1>3, BytesAre DEF SizeOf
<1> QED
  BY <1>1, <1>2, <1>5, <1>6 DEF C

\* At the start of a batch batchAt() sees that batch, if it ends within the limit.
LEMMA BatchAtIs ==
    ASSUME NEW B \in Seq(BatchSet), NEW n \in 1..Len(B), NEW limit \in Nat
    PROVE  BatchAt(B, StartOf(B, n), limit) = IF BytesAfter(B)[n] <= limit THEN {n} ELSE {}
<1>1. /\ DOMAIN B = 1..Len(B) /\ Len(B) \in Nat
      /\ \A m \in 1..Len(B) : m - 1 \in 0..Len(B) /\ m \in 0..Len(B)
  OBVIOUS
<1>2. \A m \in 1..Len(B) : m # n => BytesAfter(B)[m - 1] # BytesAfter(B)[n - 1]
  <2> SUFFICES ASSUME NEW m \in 1..Len(B), m # n
               PROVE  BytesAfter(B)[m - 1] # BytesAfter(B)[n - 1]
    OBVIOUS
  <2>1. m - 1 < n - 1 \/ n - 1 < m - 1
    BY <1>1
  <2>2. BytesAfter(B)[m - 1] < BytesAfter(B)[n - 1] \/ BytesAfter(B)[n - 1] < BytesAfter(B)[m - 1]
    BY <1>1, <2>1, BytesAre
  <2>3. BytesAfter(B)[m - 1] \in Nat /\ BytesAfter(B)[n - 1] \in Nat
    BY <1>1, BytesAre
  <2> QED
    BY <2>2, <2>3
<1>3. BytesAfter(B)[n] = BytesAfter(B)[n - 1] + B[n].size
  BY BytesAre
<1> QED
  BY <1>1, <1>2, <1>3 DEF BatchAt, StartOf

\* At the end of the log it sees none.
LEMMA NothingAtTheEnd ==
    ASSUME NEW B \in Seq(BatchSet), NEW limit \in Nat
    PROVE  BatchAt(B, SizeOf(B), limit) = {}
<1>1. /\ DOMAIN B = 1..Len(B) /\ Len(B) \in Nat /\ Len(B) \in 0..Len(B)
      /\ \A m \in 1..Len(B) : m - 1 \in 0..Len(B) /\ m - 1 < Len(B)
  OBVIOUS
<1>2. \A m \in 1..Len(B) : BytesAfter(B)[m - 1] # BytesAfter(B)[Len(B)]
  <2> SUFFICES ASSUME NEW m \in 1..Len(B)
               PROVE  BytesAfter(B)[m - 1] # BytesAfter(B)[Len(B)]
    OBVIOUS
  <2>1. BytesAfter(B)[m - 1] < BytesAfter(B)[Len(B)]
    BY <1>1, BytesAre
  <2>2. BytesAfter(B)[m - 1] \in Nat /\ BytesAfter(B)[Len(B)] \in Nat
    BY <1>1, BytesAre
  <2> QED
    BY <2>1, <2>2
<1> QED
  BY <1>1, <1>2 DEF BatchAt, StartOf, SizeOf

-----------------------------------------------------------------------------
(* Searching the index *)

EntrySet == [relative : Nat, position : Nat]

\* The first so many entries of a file are in use, the others are padding.
InUse(file, count) ==
    /\ file \in Seq(EntrySet) /\ count \in 0..Len(file)
    /\ \A i \in 1..count : file[i].position # 0
    /\ \A i \in (count + 1)..Len(file) : file[i].position = 0

\* What the search for the first zero knows.
Between(file, count) ==
    {s \in [low : Nat, high : Nat] :
        s.low <= count /\ count <= s.high /\ s.high <= Len(file) - 1}

\* Each turn of the search for the first zero halves what it still has to look at.
LEMMA HalveForZeroDoes ==
    ASSUME NEW file, NEW count, InUse(file, count), NEW s \in Between(file, count)
    PROVE  /\ HalveForZero(file, s) \in Between(file, count)
           /\ s.low = s.high => HalveForZero(file, s) = s
           /\ s.low < s.high =>
                HalveForZero(file, s).high - HalveForZero(file, s).low < s.high - s.low
<1> DEFINE mid == s.low + (s.high - s.low) \div 2
           t   == HalveForZero(file, s)
<1>1. /\ s = [low |-> s.low, high |-> s.high] /\ s.low \in Nat /\ s.high \in Nat
      /\ s.low <= count /\ count <= s.high /\ s.high <= Len(file) - 1
      /\ Len(file) \in Nat /\ count \in Nat
  BY DEF Between, InUse
<1>2. CASE s.low >= s.high
  <2>1. t = s
    BY <1>2 DEF HalveForZero
  <2> QED
    BY <1>1, <1>2, <2>1
<1>3. CASE s.low < s.high
  <2>1. mid \in Nat /\ s.low <= mid /\ mid < s.high /\ mid + 1 \in 1..Len(file)
    BY <1>1, <1>3
  <2>2. ~(s.low >= s.high)
    BY <1>1, <1>3
  <2>3. CASE file[mid + 1].position = 0
    <3>1. t = [low |-> s.low, high |-> mid]
      BY <1>1, <2>2, <2>3 DEF HalveForZero
    <3>2. ~(mid + 1 <= count)
      BY <1>1, <2>1, <2>3 DEF InUse
    <3>3. count <= mid
      BY <1>1, <2>1, <3>2
    <3>4. t \in Between(file, count)
      BY <1>1, <2>1, <3>1, <3>3 DEF Between
    <3>5. t.low = s.low /\ t.high = mid
      BY <3>1
    <3> HIDE DEF mid, t
    <3>6. t.high - t.low < s.high - s.low /\ ~(s.low = s.high)
      BY <1>1, <2>1, <3>5
    <3> QED
      BY <1>3, <3>4, <3>6 DEF t
  <2>4. CASE file[mid + 1].position # 0
    <3>1. t = [low |-> mid + 1, high |-> s.high]
      BY <1>1, <2>2, <2>4 DEF HalveForZero
    <3>2. ~(mid + 1 >= count + 1)
      BY <1>1, <2>1, <2>4 DEF InUse
    <3>3. mid + 1 <= count
      BY <1>1, <2>1, <3>2
    <3>4. t \in Between(file, count)
      BY <1>1, <2>1, <3>1, <3>3 DEF Between
    <3>5. t.low = mid + 1 /\ t.high = s.high
      BY <3>1
    <3> HIDE DEF mid, t
    <3>6. t.high - t.low < s.high - s.low /\ ~(s.low = s.high)
      BY <1>1, <2>1, <3>5
    <3> QED
      BY <1>3, <3>4, <3>6 DEF t
  <2> QED
    BY <2>3, <2>4
<1> QED
  BY <1>1, <1>2, <1>3

\* countEntries() finds how many entries are in use, of an index that was trimmed
\* and of one that ends in its preallocated zeroes.
THEOREM CountEntriesFinds ==
    ASSUME NEW file, NEW count, InUse(file, count)
    PROVE  CountEntries(file) = count
<1>1. /\ Len(file) \in Nat /\ count \in 0..Len(file) /\ file \in Seq(EntrySet)
      /\ \A i \in (count + 1)..Len(file) : file[i].position = 0
  BY DEF InUse
<1>2. CASE file = <<>>
  BY <1>1, <1>2 DEF CountEntries
<1>3. CASE file # <<>> /\ file[Len(file)].position # 0
  <2>1. ~(count + 1 <= Len(file))
    <3>1. count + 1 <= Len(file) => Len(file) \in (count + 1)..Len(file)
      BY <1>1
    <3> QED
      BY <1>1, <1>3, <3>1
  <2>2. count = Len(file)
    BY <1>1, <2>1
  <2> QED
    BY <1>3, <2>2 DEF CountEntries
<1>4. CASE file # <<>> /\ file[Len(file)].position = 0
  <2> DEFINE n     == Len(file)
             S     == Between(file, count)
             start == [low |-> 0, high |-> n - 1]
             turn  == [i \in 1..n |-> [s \in S |-> HalveForZero(file, s)]]
             Is(f) == f = [i \in 0..n |-> IF i = 0 THEN [low |-> 0, high |-> Len(file) - 1]
                                          ELSE HalveForZero(file, f[i - 1])]
             z     == ZeroSearch(file)
  <2>1. n \in Nat \ {0} /\ count < n
    <3>1. n \in Nat \ {0} /\ n \in 1..n
      BY <1>1, <1>4
    <3>2. ~(n <= count)
      BY <1>1, <1>4, <3>1 DEF InUse
    <3> QED
      BY <1>1, <3>1, <3>2
  <2>2. start \in S
    BY <1>1, <2>1 DEF Between
  <2>3. turn \in [1..n -> [S -> S]]
    BY HalveForZeroDoes
  <2>4. \A i \in 1..n, s \in S : turn[i][s] = HalveForZero(file, s)
    OBVIOUS
  <2> HIDE DEF turn, S, n
  <2>5. PICK f : States(f, n, S, start, turn)
    BY <2>1, <2>2, <2>3, LoopHasStates
  <2>6. Is(f)
    <3>1. \A i \in 0..n : f[i] = IF i = 0 THEN start ELSE HalveForZero(file, f[i - 1])
      BY <2>1, <2>4, <2>5 DEF States
    <3>2. f = [i \in 0..n |-> f[i]]
      BY <2>5 DEF States
    <3> QED
      BY <3>1, <3>2 DEF n
  <2>7. Is(z)
    <3>1. z = CHOOSE g : Is(g)
      BY DEF ZeroSearch, n
    <3> HIDE DEF z, Is
    <3> QED
      BY <2>6, <3>1
  <2> HIDE DEF z
  <2>8. z[0] = start /\ \A i \in 1..n : z[i] = HalveForZero(file, z[i - 1])
    BY <2>1, <2>7 DEF n
  <2> DEFINE T == {i \in 0..n : /\ z[i] \in Between(file, count)
                                /\ \/ z[i].low = z[i].high
                                   \/ z[i].high - z[i].low <= n - 1 - i}
  <2>9. 0 \in T
    BY <2>1, <2>2, <2>8 DEF S
  <2>10. ASSUME NEW i \in 1..n, i - 1 \in T PROVE i \in T
    <3> DEFINE s == z[i - 1]
               t == z[i]
    <3>1. s \in Between(file, count) /\ t = HalveForZero(file, s)
      BY <2>8, <2>10
    <3>2. /\ t \in Between(file, count)
          /\ s.low = s.high => t = s
          /\ s.low < s.high => t.high - t.low < s.high - s.low
      BY <3>1, HalveForZeroDoes
    <3>3. /\ s.low \in Nat /\ s.high \in Nat /\ s.low <= s.high
          /\ t.low \in Nat /\ t.high \in Nat
      BY <1>1, <3>1, <3>2 DEF Between
    <3>4. s.low = s.high \/ s.high - s.low <= n - 1 - (i - 1)
      BY <2>10
    <3>5. t.low = t.high \/ t.high - t.low <= n - 1 - i
      <4> HIDE DEF s, t
      <4>1. CASE s.low = s.high
        BY <3>2, <4>1
      <4>2. CASE s.low < s.high
        BY <2>1, <3>2, <3>3, <3>4, <4>2
      <4> QED
        BY <3>3, <4>1, <4>2
    <3> QED
      BY <2>1, <3>2, <3>5
  <2> HIDE DEF T
  <2>11. \A i \in 0..n : i \in T
    BY <2>1, <2>9, <2>10, AllUpTo
  <2>12. z[n] \in Between(file, count) /\ (z[n].low = z[n].high \/ z[n].high - z[n].low <= n - 1 - n)
    BY <2>1, <2>11 DEF T
  <2>13. z[n].low = count
    BY <1>1, <2>1, <2>12 DEF Between
  <2>14. CountEntries(file) = ZeroSearch(file)[Len(file)].low
    BY <1>4 DEF CountEntries
  <2> QED
    BY <2>13, <2>14 DEF z, n
<1> QED
  BY <1>2, <1>3, <1>4

\* The entries in use are in the order of their offsets.
EntriesAscend(file, count) ==
    \A i, j \in 1..count : i < j => file[i].relative < file[j].relative

\* What the search for the greatest entry at or below the target knows.
Candidates(file, target, count) ==
    {s \in [low : Nat, high : Nat] :
        /\ s.low <= s.high /\ s.high <= count - 1
        /\ file[s.low + 1].relative <= target
        /\ EntriesAscend(file, count) =>
                \A j \in 1..count : s.high + 1 < j => file[j].relative > target}

\* Each turn of that search halves what it still has to look at.
LEMMA HalveForGreatestDoes ==
    ASSUME NEW file \in Seq(EntrySet), NEW count \in 1..Len(file), NEW target \in Int,
           NEW s \in Candidates(file, target, count)
    PROVE  /\ HalveForGreatest(file, target, s) \in Candidates(file, target, count)
           /\ s.low = s.high => HalveForGreatest(file, target, s) = s
           /\ s.low < s.high =>
                HalveForGreatest(file, target, s).high - HalveForGreatest(file, target, s).low
                    < s.high - s.low
<1> DEFINE mid == s.low + (s.high - s.low + 1) \div 2
           t   == HalveForGreatest(file, target, s)
<1>1. /\ s = [low |-> s.low, high |-> s.high] /\ s.low \in Nat /\ s.high \in Nat
      /\ s.low <= s.high /\ s.high <= count - 1 /\ file[s.low + 1].relative <= target
      /\ Len(file) \in Nat /\ count \in Nat /\ count <= Len(file)
      /\ \A j \in 1..count : file[j] \in EntrySet
  BY DEF Candidates
<1>2. \A j \in 1..count : file[j].relative \in Nat
  BY <1>1 DEF EntrySet
<1>3. CASE s.low >= s.high
  <2>1. t = s
    BY <1>3 DEF HalveForGreatest
  <2>2. ~(s.low < s.high)
    BY <1>1, <1>3
  <2> HIDE DEF t
  <2>3. t \in Candidates(file, target, count)
    BY <2>1
  <2>4. s.low = s.high => t = s
    BY <2>1
  <2>5. s.low < s.high => t.high - t.low < s.high - s.low
    BY <2>2
  <2> QED
    BY <2>3, <2>4, <2>5 DEF t
<1>4. CASE s.low < s.high
  <2>1. mid \in Nat /\ s.low < mid /\ mid <= s.high /\ mid + 1 \in 1..count
    <3> DEFINE x == s.low
               y == s.high
               m == x + (y - x + 1) \div 2
    <3>1. x \in Nat /\ y \in Nat /\ x < y /\ y <= count - 1 /\ count \in Nat
      BY <1>1, <1>4
    <3> HIDE DEF x, y
    <3>2. m \in Nat /\ x < m /\ m <= y /\ m + 1 \in 1..count
      BY ONLY <3>1
    <3> QED
      BY <3>2 DEF x, y
  <2>2. ~(s.low >= s.high)
    BY <1>1, <1>4
  <2>3. CASE file[mid + 1].relative <= target
    <3>1. t = [low |-> mid, high |-> s.high]
      BY <1>1, <2>2, <2>3 DEF HalveForGreatest
    <3>2. t \in Candidates(file, target, count)
      <4> HIDE DEF mid, t
      <4>1. t \in [low : Nat, high : Nat] /\ t.low = mid /\ t.high = s.high
        BY <1>1, <2>1, <3>1
      <4>2. /\ t.low <= t.high /\ t.high <= count - 1
            /\ file[t.low + 1].relative <= target
        BY <1>1, <2>1, <2>3, <4>1
      <4>3. EntriesAscend(file, count) =>
                \A j \in 1..count : t.high + 1 < j => file[j].relative > target
        BY <4>1 DEF Candidates
      <4>4. /\ t.low <= t.high /\ t.high <= count - 1
            /\ file[t.low + 1].relative <= target
            /\ EntriesAscend(file, count) =>
                    \A j \in 1..count : t.high + 1 < j => file[j].relative > target
        BY ONLY <4>2, <4>3
      <4>5. t \in [low : Nat, high : Nat]
        BY <4>1
      <4> QED
        BY ONLY <4>4, <4>5, Zenon DEF Candidates
    <3>3. t.low = mid /\ t.high = s.high
      BY <3>1
    <3> HIDE DEF mid, t
    <3>4. t.high - t.low < s.high - s.low /\ ~(s.low = s.high)
      BY <1>1, <2>1, <3>3
    <3> QED
      BY <3>2, <3>4 DEF t
  <2>4. CASE ~(file[mid + 1].relative <= target)
    <3>1. t = [low |-> s.low, high |-> mid - 1]
      BY <1>1, <2>2, <2>4 DEF HalveForGreatest
    <3>2. ASSUME EntriesAscend(file, count), NEW j \in 1..count, (mid - 1) + 1 < j
          PROVE  file[j].relative > target
      <4> HIDE DEF mid
      <4>1. j = mid + 1 \/ mid + 1 < j
        BY <1>1, <2>1, <3>2
      <4>2. mid + 1 < j => file[mid + 1].relative < file[j].relative
        BY <2>1, <3>2 DEF EntriesAscend
      <4>3. file[mid + 1].relative \in Nat /\ file[j].relative \in Nat
        BY <1>2, <2>1
      <4> QED
        BY <2>4, <4>1, <4>2, <4>3
    <3>3. t \in Candidates(file, target, count)
      <4> HIDE DEF mid, t
      <4>1. mid - 1 \in Nat /\ s.low <= mid - 1 /\ mid - 1 <= count - 1
        BY <1>1, <2>1
      <4>2. /\ t \in [low : Nat, high : Nat] /\ t.low = s.low /\ t.high = mid - 1
        BY <1>1, <3>1, <4>1
      <4>3. EntriesAscend(file, count) =>
                \A j \in 1..count : t.high + 1 < j => file[j].relative > target
        BY <3>2, <4>2
      <4> QED
        <5> DEFINE Rest(u) == EntriesAscend(file, count) =>
                        \A j \in 1..count : u.high + 1 < j => file[j].relative > target
        <5>1. /\ t.low <= t.high /\ t.high <= count - 1 /\ file[t.low + 1].relative <= target
          BY <1>1, <4>1, <4>2
        <5>2. Rest(t)
          BY <4>3
        <5>3. Candidates(file, target, count) =
                {u \in [low : Nat, high : Nat] :
                    /\ u.low <= u.high /\ u.high <= count - 1
                    /\ file[u.low + 1].relative <= target
                    /\ Rest(u)}
          BY DEF Candidates
        <5> HIDE DEF Rest
        <5> QED
          BY <4>2, <5>1, <5>2, <5>3
    <3>4. t.high - t.low < s.high - s.low
      <4> HIDE DEF mid
      <4>1. t.low = s.low /\ t.high = mid - 1
        BY <3>1
      <4> QED
        BY <1>1, <2>1, <4>1
    <3> QED
      <4>1. s.low # s.high
        BY <1>1, <1>4
      <4> QED
        BY <3>3, <3>4, <4>1
  <2> QED
    BY <2>3, <2>4
<1> QED
  BY <1>1, <1>3, <1>4

\* lookup() answers with an entry in use that is not above the target, or with the
\* start of the file when there is none; and when the entries are in order, with
\* the greatest.
THEOREM LookupFinds ==
    ASSUME NEW index, index.file \in Seq(EntrySet), index.count \in 0..Len(index.file),
           NEW target \in Int
    PROVE  \/ /\ \/ index.count = 0
                 \/ index.file[1].relative > target
              /\ Lookup(index, target) = Padding
           \/ \E i \in 1..index.count :
                /\ Lookup(index, target) = index.file[i]
                /\ index.file[i].relative <= target
                /\ EntriesAscend(index.file, index.count) =>
                        \A j \in 1..index.count : i < j => index.file[j].relative > target
<1>1. CASE index.count = 0 \/ index.file[1].relative > target
  BY <1>1 DEF Lookup
<1>2. CASE ~(index.count = 0 \/ index.file[1].relative > target)
  <2> DEFINE file  == index.file
             n     == index.count
             S     == Candidates(file, target, n)
             start == [low |-> 0, high |-> n - 1]
             turn  == [i \in 1..n |-> [s \in S |-> HalveForGreatest(file, target, s)]]
             g     == GreatestSearch(file, target, n)
             Is(f) == f = [i \in 0..n |-> IF i = 0 THEN start
                                          ELSE HalveForGreatest(file, target, f[i - 1])]
  <2>1. /\ n \in Nat \ {0} /\ n \in 1..Len(file) /\ file \in Seq(EntrySet) /\ 1 \in 1..n
        /\ \A j \in 1..n : file[j] \in EntrySet
    BY <1>2
  <2>2. start \in S
    <3>1. file[1].relative \in Nat
      BY <2>1 DEF EntrySet
    <3>2. file[start.low + 1].relative <= target
      BY <1>2, <3>1
    <3>3. start.high + 1 = n
      BY <2>1
    <3> QED
      BY <2>1, <3>2, <3>3 DEF Candidates
  <2>3. \A s \in S : HalveForGreatest(file, target, s) \in S
    BY <2>1, HalveForGreatestDoes
  <2>4. turn \in [1..n -> [S -> S]] /\ \A i \in 1..n, s \in S : turn[i][s] = HalveForGreatest(file, target, s)
    <3> HIDE DEF S
    <3> QED
      BY <2>3
  <2>5. Lookup(index, target) = file[g[n].low + 1]
    BY <1>2 DEF Lookup
  <2>6. g = CHOOSE f : Is(f)
    BY DEF GreatestSearch
  <2> HIDE DEF turn, S, n, file, g
  <2>7. PICK f : States(f, n, S, start, turn)
    BY <2>1, <2>2, <2>4, LoopHasStates
  <2>8. Is(f)
    <3>1. \A i \in 0..n : f[i] = IF i = 0 THEN start ELSE HalveForGreatest(file, target, f[i - 1])
      BY <2>1, <2>4, <2>7 DEF States
    <3>2. f = [i \in 0..n |-> f[i]]
      BY <2>7 DEF States
    <3> QED
      BY <3>1, <3>2
  <2>9. Is(g)
    <3> HIDE DEF Is
    <3> QED
      BY <2>6, <2>8
  <2>10. g[0] = start /\ \A i \in 1..n : g[i] = HalveForGreatest(file, target, g[i - 1])
    BY <2>1, <2>9
  <2> DEFINE T == {i \in 0..n : /\ g[i] \in S
                                /\ \/ g[i].low = g[i].high
                                   \/ g[i].high - g[i].low <= n - 1 - i}
  <2>11. 0 \in T
    BY <2>1, <2>2, <2>10
  <2>12. ASSUME NEW i \in 1..n, i - 1 \in T PROVE i \in T
    <3> DEFINE s == g[i - 1]
               t == g[i]
    <3>1. s \in Candidates(file, target, n) /\ t = HalveForGreatest(file, target, s)
      BY <2>10, <2>12 DEF S
    <3>2. /\ t \in Candidates(file, target, n)
          /\ s.low = s.high => t = s
          /\ s.low < s.high => t.high - t.low < s.high - s.low
      BY <2>1, <3>1, HalveForGreatestDoes
    <3>3. /\ s.low \in Nat /\ s.high \in Nat /\ s.low <= s.high
          /\ t.low \in Nat /\ t.high \in Nat
      BY <3>1, <3>2 DEF Candidates
    <3>4. s.low = s.high \/ s.high - s.low <= n - 1 - (i - 1)
      BY <2>12
    <3>5. t.low = t.high \/ t.high - t.low <= n - 1 - i
      <4> HIDE DEF s, t
      <4>1. CASE s.low = s.high
        BY <3>2, <4>1
      <4>2. CASE s.low < s.high
        BY <2>1, <3>2, <3>3, <3>4, <4>2
      <4> QED
        BY <3>3, <4>1, <4>2
    <3> QED
      BY <2>1, <3>2, <3>5 DEF S
  <2> HIDE DEF T
  <2>13. \A i \in 0..n : i \in T
    BY <2>1, <2>11, <2>12, AllUpTo
  <2>14. g[n] \in Candidates(file, target, n) /\ (g[n].low = g[n].high \/ g[n].high - g[n].low <= n - 1 - n)
    BY <2>1, <2>13 DEF T, S
  <2>15. /\ g[n].low = g[n].high /\ g[n].low \in Nat /\ g[n].low + 1 \in 1..n
         /\ file[g[n].low + 1].relative <= target
         /\ EntriesAscend(file, n) =>
                \A j \in 1..n : g[n].low + 1 < j => file[j].relative > target
    BY <2>1, <2>14 DEF Candidates
  <2> QED
    BY <2>5, <2>15 DEF file, n
<1> QED
  BY <1>1, <1>2

-----------------------------------------------------------------------------
(* Scanning the log *)

\* One turn of the loop of read(): past a batch that ends below the offset.
PastShort(B, limit, offset, here) ==
    LET short == {n \in BatchAt(B, here, limit) : B[n].last < offset}
    IN  IF short = {} THEN here ELSE here + B[CHOOSE n \in short : TRUE].size

\* From the k-th batch on the batches end below the offset and within the limit,
\* but the one called stop does not, or is not there.
ShortUntil(B, k, stop, limit, offset) ==
    /\ stop \in k..(Len(B) + 1)
    /\ \A n \in k..(stop - 1) : B[n].last < offset /\ BytesAfter(B)[n] <= limit
    /\ {n \in BatchAt(B, BytesAfter(B)[stop - 1], limit) : B[n].last < offset} = {}

\* The loop of read() goes on as long as the batches end below the offset and
\* within the limit.
LEMMA ScannedToStops ==
    ASSUME NEW B \in Seq(BatchSet), NEW limit \in Nat, NEW offset \in Int,
           NEW k \in 1..Len(B), NEW stop, ShortUntil(B, k, stop, limit, offset)
    PROVE  ScannedTo(B, StartOf(B, k), limit, offset)[Len(B)] = BytesAfter(B)[stop - 1]
<1> DEFINE N     == Len(B)
           bytes == BytesAfter(B)
           from  == bytes[k - 1]
           turn  == [i \in 1..N |-> [here \in Nat |-> PastShort(B, limit, offset, here)]]
           at    == ScannedTo(B, from, limit, offset)
           Is(f) == f = [i \in 0..N |-> IF i = 0 THEN from
                                        ELSE PastShort(B, limit, offset, f[i - 1])]
<1>1. /\ N \in Nat /\ DOMAIN B = 1..N /\ k \in 1..N /\ stop \in k..(N + 1)
      /\ k - 1 \in 0..N /\ stop - 1 \in 0..N
      /\ \A n \in 1..N : B[n] \in BatchSet
  BY DEF ShortUntil
<1>2. \A n \in 1..N : B[n].size \in Nat
  BY <1>1 DEF BatchSet
<1>3. bytes \in [0..N -> Nat] /\ \A n \in 1..N : bytes[n] = bytes[n - 1] + B[n].size
  BY BytesAre
<1>4. from \in Nat
  BY <1>1, <1>3
<1>5. \A here \in Nat : PastShort(B, limit, offset, here) \in Nat
  <2> SUFFICES ASSUME NEW here \in Nat PROVE PastShort(B, limit, offset, here) \in Nat
    OBVIOUS
  <2> DEFINE short == {n \in BatchAt(B, here, limit) : B[n].last < offset}
             one   == CHOOSE n \in short : TRUE
  <2>1. short \subseteq 1..N
    BY <1>1 DEF BatchAt
  <2>2. PastShort(B, limit, offset, here) = IF short = {} THEN here ELSE here + B[one].size
    BY DEF PastShort
  <2> HIDE DEF short
  <2>3. short # {} => one \in short
    OBVIOUS
  <2> HIDE DEF one
  <2>4. short # {} => B[one].size \in Nat
    BY <1>2, <2>1, <2>3
  <2> QED
    BY <2>2, <2>4
<1>6. turn \in [1..N -> [Nat -> Nat]]
      /\ \A i \in 1..N, here \in Nat : turn[i][here] = PastShort(B, limit, offset, here)
  BY <1>5
<1>7. at = CHOOSE f : Is(f)
  BY DEF ScannedTo, PastShort
<1>8. StartOf(B, k) = from
  BY DEF StartOf
<1> HIDE DEF N, bytes, from, turn, at
<1>9. PICK f : States(f, N, Nat, from, turn)
  BY <1>1, <1>4, <1>6, LoopHasStates
<1>10. Is(f)
  <2>1. f \in [0..N -> Nat] /\ f[0] = from /\ \A i \in 1..N : f[i] = turn[i][f[i - 1]]
    BY <1>9 DEF States
  <2>2. ASSUME NEW i \in 1..N PROVE f[i] = PastShort(B, limit, offset, f[i - 1])
    <3>1. i - 1 \in 0..N
      BY <1>1
    <3>2. f[i - 1] \in Nat
      BY <2>1, <3>1
    <3> QED
      BY <1>6, <2>1, <3>2
  <2>3. \A i \in 0..N : i # 0 => i \in 1..N
    BY <1>1
  <2>4. f = [i \in 0..N |-> f[i]]
    BY <2>1
  <2>5. \A i \in 0..N : f[i] = IF i = 0 THEN from ELSE PastShort(B, limit, offset, f[i - 1])
    BY <2>1, <2>2, <2>3
  <2> QED
    BY <2>4, <2>5
<1>11. Is(at)
  <2> HIDE DEF Is
  <2> QED
    BY <1>7, <1>10
<1>12. at[0] = from /\ \A i \in 1..N : at[i] = PastShort(B, limit, offset, at[i - 1])
  BY <1>1, <1>11
<1> DEFINE Where(i) == IF k - 1 + i < stop - 1 THEN k - 1 + i ELSE stop - 1
           T == {i \in 0..N : at[i] = bytes[Where(i)]}
<1>13. 0 \in T
  BY <1>1, <1>12 DEF from
<1>14. ASSUME NEW n \in 0..N, k - 1 <= n, n <= stop - 1
       PROVE  PastShort(B, limit, offset, bytes[n]) = bytes[IF n < stop - 1 THEN n + 1 ELSE n]
  <2>1. CASE n < stop - 1
    <3>1. n + 1 \in k..(stop - 1) /\ n + 1 \in 1..Len(B) /\ (n + 1) - 1 = n
      BY <1>1, <1>14, <2>1 DEF N
    <3>2. B[n + 1].last < offset /\ bytes[n + 1] <= limit
      BY <3>1 DEF bytes, ShortUntil
    <3>3. BatchAt(B, bytes[n], limit) = {n + 1}
      BY <3>1, <3>2, BatchAtIs DEF bytes, StartOf
    <3>4. {m \in BatchAt(B, bytes[n], limit) : B[m].last < offset} = {n + 1}
      BY <3>2, <3>3
    <3>5. PastShort(B, limit, offset, bytes[n]) = bytes[n] + B[n + 1].size
      BY <3>4 DEF PastShort
    <3>6. bytes[n + 1] = bytes[n] + B[n + 1].size
      BY <1>3, <3>1 DEF N
    <3> QED
      BY <2>1, <3>5, <3>6
  <2>2. CASE n = stop - 1
    <3>1. PastShort(B, limit, offset, bytes[n]) = bytes[n]
      BY <2>2 DEF PastShort, bytes, ShortUntil
    <3> QED
      BY <1>1, <2>2, <3>1
  <2> QED
    BY <1>1, <1>14, <2>1, <2>2
<1>15. ASSUME NEW i \in 1..N, i - 1 \in T PROVE i \in T
  <2> DEFINE n == Where(i - 1)
  <2>1. n \in 0..N /\ k - 1 <= n /\ n <= stop - 1
    BY <1>1
  <2>2. Where(i) = IF n < stop - 1 THEN n + 1 ELSE n
    BY <1>1
  <2>3. at[i - 1] = bytes[n] /\ at[i] = PastShort(B, limit, offset, at[i - 1])
    BY <1>12, <1>15
  <2> HIDE DEF n, Where
  <2>4. at[i] = bytes[Where(i)]
    BY <1>14, <2>1, <2>2, <2>3
  <2> QED
    BY <2>4
<1>16. Where(N) = stop - 1
  BY <1>1
<1> HIDE DEF T, Where
<1>17. \A i \in 0..N : i \in T
  BY <1>1, <1>13, <1>15, AllUpTo
<1>18. N \in T
  BY <1>1, <1>17
<1>19. at[N] = bytes[stop - 1]
  BY <1>16, <1>18 DEF T
<1> QED
  BY <1>8, <1>19 DEF N, bytes, at, from

\* Batches in the order of their offsets, with gaps where compaction left some.
Ordered(B) ==
    /\ B \in Seq(BatchSet)
    /\ \A n \in 1..Len(B) : B[n].first <= B[n].last
    /\ \A m, n \in 1..Len(B) : m < n => B[m].last < B[n].first

Reaching(B, offset) == {n \in DOMAIN B : B[n].last >= offset}

\* RangeFor, of any batches.
ServedFrom(B, read) ==
    LET range == read.range
    IN  IF Reaching(B, read.offset) = {} THEN range = [position |-> read.limit, length |-> 0]
        ELSE \E n \in Reaching(B, read.offset) :
                /\ \A m \in Reaching(B, read.offset) : n <= m
                /\ range.position = StartOf(B, n)
                /\ B[n].size <= range.length
                /\ range.length <= B[n].size \/ range.length <= read.maxBytes
                /\ range.position + range.length <= read.limit

\* The limit of a read covers the first batch that reaches its offset, or the
\* whole log.
Covers(B, limit, offset) ==
    \/ limit = SizeOf(B)
    \/ \E n \in Reaching(B, offset) : BytesAfter(B)[n] <= limit

\* Every entry at or below the offset is where a batch begins.
Points(file, count, base, B, offset) ==
    \A i \in 1..count :
        \/ file[i].relative > offset - base
        \/ \E n \in 1..Len(B) : file[i] = Entry(B[n].first - base, StartOf(B, n))

\* What begins at the start of a batch within the limit is served whole.
LEMMA RangeAtServes ==
    ASSUME NEW B \in Seq(BatchSet), NEW n \in 1..Len(B), NEW limit \in Nat, NEW maxBytes \in Nat,
           BytesAfter(B)[n] <= limit
    PROVE  LET range == RangeAt(B, StartOf(B, n), limit, maxBytes)
           IN  /\ range.position = StartOf(B, n)
               /\ B[n].size <= range.length
               /\ range.length <= B[n].size \/ range.length <= maxBytes
               /\ range.position + range.length <= limit
<1> DEFINE p     == StartOf(B, n)
           found == BatchAt(B, p, limit)
           size  == B[CHOOSE m \in found : TRUE].size
           asked == IF maxBytes < limit - p THEN maxBytes ELSE limit - p
<1>1. found = {n}
  BY BatchAtIs
<1>2. size = B[n].size
  BY <1>1
<1>3. RangeAt(B, p, limit, maxBytes) =
        [position |-> p, length |-> IF asked < size THEN size ELSE asked]
  BY <1>1 DEF RangeAt
<1>4. p \in Nat /\ B[n].size \in Nat /\ p + B[n].size <= limit
  <2>1. n - 1 \in 0..Len(B) /\ n \in 0..Len(B) /\ B[n] \in BatchSet
    OBVIOUS
  <2>2. /\ BytesAfter(B)[n - 1] \in Nat /\ B[n].size \in Nat
        /\ BytesAfter(B)[n] = BytesAfter(B)[n - 1] + B[n].size
    BY <2>1, BytesAre DEF BatchSet
  <2> QED
    BY <2>2 DEF StartOf
<1> HIDE DEF p, found, size
<1>5. asked \in Nat /\ asked <= maxBytes /\ p + asked <= limit
  BY <1>4
<1> HIDE DEF asked
<1> QED
  BY <1>2, <1>3, <1>4, <1>5 DEF p

\* Wherever the index makes the scan begin, a read is served from the first batch
\* that reaches its offset.
THEOREM ReadIsServed ==
    ASSUME NEW B, Ordered(B), NEW base \in Nat, NEW offset \in Nat, NEW maxBytes \in Nat,
           NEW index, index.file \in Seq(EntrySet), index.count \in 0..Len(index.file),
           Points(index.file, index.count, base, B, offset),
           NEW limit \in Nat, Covers(B, limit, offset), B # <<>>,
           NEW read, read.offset = offset, read.maxBytes = maxBytes, read.limit = limit,
           read.range = ReadSegment(base, B, limit, index, offset, maxBytes)
    PROVE  ServedFrom(B, read)
<1> DEFINE from == Lookup(index, offset - base).position
           stops(k) == ScannedTo(B, StartOf(B, k), limit, offset)[Len(B)]
<1>0. B \in Seq(BatchSet) /\ Len(B) \in Nat \ {0} /\ offset \in Int
  BY DEF Ordered
<1>1. /\ B \in Seq(BatchSet) /\ DOMAIN B = 1..Len(B) /\ Len(B) \in Nat \ {0}
      /\ \A n \in 1..Len(B) : B[n] \in BatchSet /\ n - 1 \in 0..Len(B) /\ n \in 0..Len(B)
  BY DEF Ordered
<1>2. \A n \in 1..Len(B) : /\ B[n].first \in Nat /\ B[n].last \in Nat
                           /\ BytesAfter(B)[n] \in Nat
                           /\ BytesAfter(B)[n] <= SizeOf(B)
  <2> SUFFICES ASSUME NEW n \in 1..Len(B)
               PROVE  /\ B[n].first \in Nat /\ B[n].last \in Nat
                      /\ BytesAfter(B)[n] \in Nat /\ BytesAfter(B)[n] <= SizeOf(B)
    OBVIOUS
  <2>1. n = Len(B) \/ n < Len(B)
    BY <1>0
  <2>2. Len(B) \in 0..Len(B) /\ n \in 0..Len(B)
    BY <1>1
  <2>3. BytesAfter(B)[n] \in Nat /\ BytesAfter(B)[Len(B)] \in Nat
    BY <1>1, <2>2, BytesAre
  <2>4. n < Len(B) => BytesAfter(B)[n] < BytesAfter(B)[Len(B)]
    BY <1>1, <2>2, BytesAre
  <2>5. BytesAfter(B)[n] <= BytesAfter(B)[Len(B)]
    BY <2>1, <2>3, <2>4
  <2> QED
    BY <1>1, <2>3, <2>5 DEF BatchSet, SizeOf
<1>3. \E k \in 1..Len(B) : from = StartOf(B, k) /\ (k = 1 \/ B[k].first <= offset)
  <2>1. offset - base \in Int
    OBVIOUS
  <2>2. CASE Lookup(index, offset - base) = Padding
    <3>1. from = 0
      BY <2>2 DEF Padding, Entry
    <3>2. StartOf(B, 1) = 0
      BY <1>1, BytesAre DEF StartOf
    <3> QED
      BY <1>1, <3>1, <3>2
  <2>3. CASE Lookup(index, offset - base) # Padding
    <3>1. PICK i \in 1..index.count : /\ Lookup(index, offset - base) = index.file[i]
                                      /\ index.file[i].relative <= offset - base
      BY <2>1, <2>3, LookupFinds
    <3>2. index.file[i].relative \in Nat
      <4>1. i \in 1..Len(index.file)
        OBVIOUS
      <4>2. index.file[i] \in EntrySet
        BY <4>1
      <4> QED
        BY <4>2 DEF EntrySet
    <3>3. ~(index.file[i].relative > offset - base)
      BY <3>1, <3>2
    <3>4. PICK n \in 1..Len(B) : index.file[i] = Entry(B[n].first - base, StartOf(B, n))
      BY <3>3 DEF Points
    <3>5. from = StartOf(B, n) /\ B[n].first - base <= offset - base
      BY <3>1, <3>4 DEF Entry
    <3>6. B[n].first <= offset
      BY <1>2, <3>5
    <3> QED
      BY <3>5, <3>6
  <2> QED
    BY <2>2, <2>3
<1>4. PICK k \in 1..Len(B) : from = StartOf(B, k) /\ (k = 1 \/ B[k].first <= offset)
  BY <1>3
<1>5. read.range = RangeAt(B, stops(k), limit, maxBytes)
  BY <1>4 DEF ReadSegment
<1> HIDE DEF from, stops
<1>6. CASE Reaching(B, offset) = {}
  <2>1. limit = SizeOf(B)
    BY <1>6 DEF Covers
  <2>2. \A n \in 1..Len(B) : B[n].last < offset /\ BytesAfter(B)[n] <= limit
    BY <1>1, <1>2, <1>6, <2>1 DEF Reaching
  <2>3. (Len(B) + 1) - 1 = Len(B) /\ Len(B) + 1 \in k..(Len(B) + 1)
        /\ \A n \in k..((Len(B) + 1) - 1) : n \in 1..Len(B)
    BY <1>1
  <2>4. BatchAt(B, BytesAfter(B)[Len(B)], limit) = {}
    BY <1>1, NothingAtTheEnd DEF SizeOf
  <2>5. stops(k) = SizeOf(B)
    <3> DEFINE stop == Len(B) + 1
    <3>1. /\ stop \in k..(Len(B) + 1) /\ stop - 1 = Len(B)
          /\ \A n \in k..(stop - 1) : B[n].last < offset /\ BytesAfter(B)[n] <= limit
      BY <2>2, <2>3
    <3>2. {n \in BatchAt(B, BytesAfter(B)[stop - 1], limit) : B[n].last < offset} = {}
      BY <2>3, <2>4
    <3> HIDE DEF stop
    <3>3. ShortUntil(B, k, stop, limit, offset)
      BY <3>1, <3>2 DEF ShortUntil
    <3>4. stops(k) = BytesAfter(B)[stop - 1]
      BY <1>0, <3>3, ScannedToStops DEF stops
    <3> QED
      BY <3>1, <3>4 DEF SizeOf
  <2>6. RangeAt(B, SizeOf(B), limit, maxBytes) = [position |-> limit, length |-> 0]
    BY <1>1, NothingAtTheEnd DEF RangeAt
  <2> QED
    BY <1>5, <1>6, <2>5, <2>6 DEF ServedFrom
<1>7. CASE Reaching(B, offset) # {}
  <2>1. PICK h \in Reaching(B, offset) : \A m \in Reaching(B, offset) : h <= m
    <3>1. Reaching(B, offset) \in SUBSET Nat
      BY <1>1 DEF Reaching
    <3> QED
      BY <1>7, <3>1, LeastOf
  <2>2. h \in 1..Len(B) /\ B[h].last >= offset
    BY <1>1 DEF Reaching
  <2>3. \A n \in 1..Len(B) : n < h => B[n].last < offset /\ BytesAfter(B)[n] <= BytesAfter(B)[h]
    <3> SUFFICES ASSUME NEW n \in 1..Len(B), n < h
                 PROVE  B[n].last < offset /\ BytesAfter(B)[n] <= BytesAfter(B)[h]
      OBVIOUS
    <3>1. ~(h <= n) /\ ~(B[n].last >= offset)
      <4>1. ~(h <= n)
        BY <1>1, <2>2
      <4>2. n \notin Reaching(B, offset)
        BY ONLY <2>1, <4>1, Zenon
      <4>3. n \in Reaching(B, offset) <=> B[n].last >= offset
        BY <1>1 DEF Reaching
      <4> QED
        BY ONLY <4>1, <4>2, <4>3
    <3>2. n \in 0..Len(B) /\ h \in 0..Len(B)
      BY <1>1, <2>2
    <3>3. BytesAfter(B)[n] < BytesAfter(B)[h]
      BY <1>1, <3>2, BytesAre
    <3> DEFINE last == B[n].last
               x    == BytesAfter(B)[n]
               y    == BytesAfter(B)[h]
    <3>4. last \in Nat /\ offset \in Nat /\ ~(last >= offset)
      BY <1>2, <3>1
    <3>5. x \in Nat /\ y \in Nat /\ x < y
      BY <1>2, <2>2, <3>3
    <3> HIDE DEF last, x, y
    <3>6. last < offset /\ x <= y
      BY <3>4, <3>5
    <3> QED
      BY <3>6 DEF last, x, y
  <2>4. BytesAfter(B)[h] <= limit
    <3>1. CASE limit = SizeOf(B)
      BY <1>2, <2>2, <3>1
    <3>2. CASE \E n \in Reaching(B, offset) : BytesAfter(B)[n] <= limit
      <4>1. PICK n \in Reaching(B, offset) : BytesAfter(B)[n] <= limit
        BY <3>2
      <4>2. n \in 1..Len(B) /\ h <= n
        BY <1>1, <2>1 DEF Reaching
      <4>3. h = n \/ h < n
        BY <1>1, <2>2, <4>2
      <4>4. h < n => BytesAfter(B)[h] < BytesAfter(B)[n]
        BY <1>1, <2>2, <4>2, BytesAre
      <4> QED
        BY <1>2, <2>2, <4>1, <4>2, <4>3, <4>4
    <3> QED
      BY <3>1, <3>2 DEF Covers
  <2>5. k <= h
    <3>1. CASE k = 1
      BY <1>1, <2>2, <3>1
    <3>2. CASE k # 1
      <4>1. B[k].first <= offset
        BY <1>4, <3>2
      <4>2. h < k => B[h].last < B[k].first
        BY <1>1, <2>2 DEF Ordered
      <4>3. ~(h < k)
        <5> DEFINE last  == B[h].last
                   first == B[k].first
        <5>1. last \in Nat /\ first \in Nat /\ offset \in Nat /\ last >= offset
          BY <1>2, <2>2
        <5> HIDE DEF last, first
        <5>2. first <= offset /\ (h < k => last < first)
          BY <4>1, <4>2 DEF last, first
        <5> QED
          BY ONLY <5>1, <5>2
      <4> QED
        BY <1>1, <2>2, <4>3
    <3> QED
      BY <3>1, <3>2
  <2>6. stops(k) = StartOf(B, h)
    <3>1. /\ h \in k..(Len(B) + 1)
          /\ \A n \in k..(h - 1) : B[n].last < offset /\ BytesAfter(B)[n] <= limit
      <4>1. \A n \in k..(h - 1) : n \in 1..Len(B) /\ n < h
        <5> DEFINE last == Len(B)
        <5>1. k \in Nat /\ 1 <= k /\ h \in Nat /\ last \in Nat /\ h <= last
          BY <1>1, <2>2
        <5> HIDE DEF last
        <5>2. \A n \in k..(h - 1) : n \in 1..last /\ n < h
          BY ONLY <5>1
        <5> QED
          BY <5>2 DEF last
      <4>2. \A n \in k..(h - 1) : B[n].last < offset /\ BytesAfter(B)[n] <= BytesAfter(B)[h]
        BY <2>3, <4>1
      <4>3. ASSUME NEW n \in k..(h - 1)
            PROVE  BytesAfter(B)[n] <= limit
        <5> DEFINE x == BytesAfter(B)[n]
                   y == BytesAfter(B)[h]
        <5>1. x \in Nat /\ y \in Nat
          BY <1>2, <2>2, <4>1
        <5>2. x <= y /\ y <= limit
          BY <2>4, <4>2
        <5> HIDE DEF x, y
        <5>3. x <= limit
          BY ONLY <5>1, <5>2, limit \in Nat
        <5> QED
          BY <5>3 DEF x
      <4> QED
        BY <1>1, <2>2, <2>5, <4>2, <4>3
    <3>2. {n \in BatchAt(B, BytesAfter(B)[h - 1], limit) : B[n].last < offset} = {}
      <4>1. BatchAt(B, BytesAfter(B)[h - 1], limit) = {h}
        BY <1>1, <2>2, <2>4, BatchAtIs DEF StartOf
      <4>2. ~(B[h].last < offset)
        BY <1>2, <2>2
      <4> QED
        BY <4>1, <4>2
    <3>3. ShortUntil(B, k, h, limit, offset)
      BY <3>1, <3>2 DEF ShortUntil
    <3> QED
      BY <1>0, <3>3, ScannedToStops DEF stops, StartOf
  <2>7. /\ read.range.position = StartOf(B, h)
        /\ B[h].size <= read.range.length
        /\ read.range.length <= B[h].size \/ read.range.length <= maxBytes
        /\ read.range.position + read.range.length <= limit
    BY <1>1, <1>5, <2>2, <2>4, <2>6, RangeAtServes
  <2> QED
    BY <1>7, <2>1, <2>7 DEF ServedFrom
<1> QED
  BY <1>6, <1>7

-----------------------------------------------------------------------------
(* Walking the log *)

\* One turn of the loop of deriveEndStateFromLog(): past the batch that is there.
WalkOn(B, so) ==
    LET here == BatchAt(B, so.position, SizeOf(B))
        n    == CHOOSE m \in here : TRUE
    IN  IF here = {} THEN so
        ELSE [position |-> so.position + B[n].size, next |-> B[n].last + 1]

\* What a reader holds once it has read: the range read() gave it, from an index
\* that points at batches and a size that covers what it asked for.
IsRead(B, base, index, read) ==
    /\ Ordered(B) /\ B # <<>> /\ base \in Nat
    /\ read.offset \in Nat /\ read.maxBytes \in Nat /\ read.limit \in Nat
    /\ index.file \in Seq(EntrySet) /\ index.count \in 0..Len(index.file)
    /\ Points(index.file, index.count, base, B, read.offset)
    /\ Covers(B, read.limit, read.offset)
    /\ read.range = ReadSegment(base, B, read.limit, index, read.offset, read.maxBytes)

\* ReadIsServed, of what a reader holds.
LEMMA WhatIsReadIsServed ==
    ASSUME NEW B, NEW base, NEW index, NEW read, IsRead(B, base, index, read)
    PROVE  ServedFrom(B, read)
<1> DEFINE offset   == read.offset
           maxBytes == read.maxBytes
           limit    == read.limit
<1>1. /\ Ordered(B) /\ base \in Nat /\ offset \in Nat /\ maxBytes \in Nat /\ limit \in Nat
      /\ index.file \in Seq(EntrySet) /\ index.count \in 0..Len(index.file)
      /\ Points(index.file, index.count, base, B, offset) /\ Covers(B, limit, offset)
      /\ B # <<>>
  BY DEF IsRead
<1>2. /\ read.offset = offset /\ read.maxBytes = maxBytes /\ read.limit = limit
      /\ read.range = ReadSegment(base, B, limit, index, offset, maxBytes)
  BY DEF IsRead
<1> HIDE DEF offset, maxBytes, limit
<1> QED
  BY ONLY <1>1, <1>2, ReadIsServed, SMTT(60)

\* No batch ends after the log.
LEMMA BytesWithin ==
    ASSUME NEW B \in Seq(BatchSet)
    PROVE  SizeOf(B) \in Nat /\ \A n \in 0..Len(B) : BytesAfter(B)[n] <= SizeOf(B)
<1>1. Len(B) \in Nat /\ Len(B) \in 0..Len(B)
  OBVIOUS
<1>2. \A n \in 0..Len(B) : BytesAfter(B)[n] \in Nat
  BY BytesAre
<1>3. ASSUME NEW n \in 0..Len(B) PROVE BytesAfter(B)[n] <= BytesAfter(B)[Len(B)]
  <2>1. n = Len(B) \/ n < Len(B)
    BY <1>1
  <2>2. n < Len(B) => BytesAfter(B)[n] < BytesAfter(B)[Len(B)]
    BY <1>1, BytesAre
  <2> QED
    BY <1>1, <1>2, <2>1, <2>2
<1> QED
  BY <1>1, <1>2, <1>3 DEF SizeOf

\* From the start of any batch the walk ends after the last.
LEMMA WalkedToTheEnd ==
    ASSUME NEW B \in Seq(BatchSet), NEW base \in Nat, NEW k \in 1..Len(B)
    PROVE  WalkedTo(base, B, StartOf(B, k))[Len(B)].next = EndOf(base, B)
<1> DEFINE N     == Len(B)
           bytes == BytesAfter(B)
           from  == bytes[k - 1]
           S     == [position : Nat, next : Nat]
           first == [position |-> from, next |-> base]
           turn  == [i \in 1..N |-> [so \in S |-> WalkOn(B, so)]]
           walk  == WalkedTo(base, B, from)
           Is(f) == f = [i \in 0..N |-> IF i = 0 THEN first ELSE WalkOn(B, f[i - 1])]
<1>1. /\ N \in Nat \ {0} /\ DOMAIN B = 1..N /\ k \in 1..N /\ k - 1 \in 0..N /\ N \in 1..N
      /\ \A n \in 1..N : B[n] \in BatchSet
  OBVIOUS
<1>2. \A n \in 1..N : B[n].size \in Nat /\ B[n].last \in Nat
  BY <1>1 DEF BatchSet
<1>3. bytes \in [0..N -> Nat] /\ \A n \in 1..N : bytes[n] = bytes[n - 1] + B[n].size
  BY BytesAre
<1>4. from \in Nat
  BY <1>1, <1>3
<1>5. \A so \in S : WalkOn(B, so) \in S
  <2> SUFFICES ASSUME NEW so \in S PROVE WalkOn(B, so) \in S
    OBVIOUS
  <2> DEFINE here == BatchAt(B, so.position, SizeOf(B))
             one  == CHOOSE m \in here : TRUE
  <2>1. here \subseteq 1..N
    BY <1>1 DEF BatchAt
  <2>2. WalkOn(B, so) = IF here = {} THEN so
                        ELSE [position |-> so.position + B[one].size, next |-> B[one].last + 1]
    BY DEF WalkOn
  <2> HIDE DEF here
  <2>3. here # {} => one \in here
    OBVIOUS
  <2> HIDE DEF one
  <2>4. here # {} => B[one].size \in Nat /\ B[one].last \in Nat
    BY <1>2, <2>1, <2>3
  <2>5. so.position \in Nat
    OBVIOUS
  <2>6. CASE here = {}
    BY <2>2, <2>6
  <2>7. CASE here # {}
    <3> DEFINE size == B[one].size
               last == B[one].last
    <3>1. size \in Nat /\ last \in Nat
      BY <2>4, <2>7
    <3> HIDE DEF size, last
    <3>2. [position |-> so.position + size, next |-> last + 1] \in S
      BY <2>5, <3>1
    <3> QED
      BY <2>2, <2>7, <3>2 DEF size, last
  <2> QED
    BY <2>6, <2>7
<1>6. first \in S
  BY <1>4
<1>7. walk = CHOOSE f : Is(f)
  BY DEF WalkedTo, WalkOn
<1>8. StartOf(B, k) = from
  BY DEF StartOf
<1> HIDE DEF S
<1>9. /\ turn \in [1..N -> [S -> S]]
      /\ \A i \in 1..N, so \in S : turn[i][so] = WalkOn(B, so)
  BY <1>5
<1> HIDE DEF N, bytes, from, first, turn, walk
<1>10. PICK f : States(f, N, S, first, turn)
  BY <1>1, <1>6, <1>9, LoopHasStates
<1>11. Is(f)
  <2>1. f \in [0..N -> S] /\ f[0] = first /\ \A i \in 1..N : f[i] = turn[i][f[i - 1]]
    BY <1>10 DEF States
  <2>2. ASSUME NEW i \in 1..N PROVE f[i] = WalkOn(B, f[i - 1])
    <3>1. i - 1 \in 0..N
      BY <1>1
    <3>2. f[i - 1] \in S
      BY <2>1, <3>1
    <3> QED
      BY <1>9, <2>1, <3>2
  <2>3. \A i \in 0..N : i # 0 => i \in 1..N
    BY <1>1
  <2>4. f = [i \in 0..N |-> f[i]]
    BY <2>1
  <2>5. \A i \in 0..N : f[i] = IF i = 0 THEN first ELSE WalkOn(B, f[i - 1])
    BY <2>1, <2>2, <2>3
  <2> QED
    BY <2>4, <2>5
<1>12. Is(walk)
  <2> HIDE DEF Is
  <2> QED
    BY <1>7, <1>11
<1>13. walk[0] = first /\ \A i \in 1..N : walk[i] = WalkOn(B, walk[i - 1])
  BY <1>1, <1>12
<1> DEFINE Where(i) == IF k - 1 + i < N THEN k - 1 + i ELSE N
           T == {i \in 0..N : /\ walk[i].position = bytes[Where(i)]
                              /\ i # 0 => walk[i] = [position |-> bytes[Where(i)],
                                                     next |-> B[Where(i)].last + 1]}
<1>14. 0 \in T
  BY <1>1, <1>13 DEF first, from
<1>15. ASSUME NEW so, NEW n \in 1..N, so.position = bytes[n - 1]
       PROVE  WalkOn(B, so) = [position |-> bytes[n], next |-> B[n].last + 1]
  <2>1. n \in 1..Len(B) /\ n \in 0..Len(B)
    BY <1>1 DEF N
  <2>2. SizeOf(B) \in Nat /\ BytesAfter(B)[n] <= SizeOf(B)
    BY <2>1, BytesWithin
  <2>3. BatchAt(B, StartOf(B, n), SizeOf(B)) = {n}
    BY <2>1, <2>2, BatchAtIs
  <2>4. BatchAt(B, so.position, SizeOf(B)) = {n}
    BY <1>15, <2>3 DEF StartOf, bytes
  <2>5. bytes[n] = bytes[n - 1] + B[n].size
    BY <1>3
  <2> QED
    BY <1>15, <2>4, <2>5 DEF WalkOn
<1>16. ASSUME NEW so, so.position = bytes[N]
       PROVE  WalkOn(B, so) = so
  <2>1. SizeOf(B) \in Nat
    BY BytesWithin
  <2>2. BatchAt(B, SizeOf(B), SizeOf(B)) = {}
    BY <2>1, NothingAtTheEnd
  <2>3. BatchAt(B, so.position, SizeOf(B)) = {}
    BY <1>16, <2>2 DEF SizeOf, bytes, N
  <2> QED
    BY <2>3 DEF WalkOn
<1>17. ASSUME NEW i \in 1..N, i - 1 \in T PROVE i \in T
  <2> DEFINE so == walk[i - 1]
  <2>1. walk[i] = WalkOn(B, so) /\ so.position = bytes[Where(i - 1)]
    BY <1>13, <1>17
  <2>2. CASE k - 1 + (i - 1) < N
    <3>1. /\ Where(i - 1) = k - 1 + (i - 1)
          /\ Where(i) \in 1..N /\ Where(i) - 1 = Where(i - 1)
      BY <1>1, <2>2
    <3> HIDE DEF so, Where
    <3>2. walk[i] = [position |-> bytes[Where(i)], next |-> B[Where(i)].last + 1]
      BY <1>15, <2>1, <3>1
    <3> QED
      BY <3>2
  <2>3. CASE ~(k - 1 + (i - 1) < N)
    <3>1. Where(i - 1) = N /\ Where(i) = N /\ i - 1 # 0
      BY <1>1, <2>3
    <3> HIDE DEF so, Where
    <3>2. walk[i] = so
      BY <1>16, <2>1, <3>1
    <3>3. so = [position |-> bytes[Where(i - 1)], next |-> B[Where(i - 1)].last + 1]
      BY <1>17, <3>1 DEF so
    <3> QED
      BY <3>1, <3>2, <3>3
  <2> QED
    BY <2>2, <2>3
<1>18. Where(N) = N
  BY <1>1
<1> HIDE DEF T, Where
<1>19. \A i \in 0..N : i \in T
  BY <1>1, <1>14, <1>17, AllUpTo
<1>20. N \in T /\ N # 0
  BY <1>1, <1>19
<1>21. walk[N].next = B[N].last + 1
  BY <1>18, <1>20 DEF T
<1>22. EndOf(base, B) = B[N].last + 1
  BY <1>1 DEF EndOf, N
<1> QED
  BY <1>8, <1>21, <1>22 DEF N, walk

\* Whatever entry the index ends with, or none: if it is where a batch begins, a
\* sealed segment is opened with the offset after its last batch.
LEMMA DeriveNextFinds ==
    ASSUME NEW B \in Seq(BatchSet), B # <<>>, NEW base \in Nat, MaxUint32 \in Int,
           NEW index, index.file \in Seq(EntrySet), index.count \in 0..Len(index.file),
           \A i \in 1..index.count :
                \E n \in 1..Len(B) : index.file[i].position = StartOf(B, n)
    PROVE  DeriveNext(base, B, index) = EndOf(base, B)
<1>1. Len(B) \in Nat \ {0} /\ 1 \in 1..Len(B) /\ 1 - 1 = 0
  OBVIOUS
<1>2. \E k \in 1..Len(B) : Lookup(index, MaxUint32).position = StartOf(B, k)
  <2>1. CASE Lookup(index, MaxUint32) = Padding
    <3>1. Lookup(index, MaxUint32).position = 0
      BY <2>1 DEF Padding, Entry
    <3>2. StartOf(B, 1) = 0
      BY <1>1, BytesAre DEF StartOf
    <3> QED
      BY <1>1, <3>1, <3>2
  <2>2. CASE Lookup(index, MaxUint32) # Padding
    <3>1. PICK i \in 1..index.count : Lookup(index, MaxUint32) = index.file[i]
      BY <2>2, LookupFinds
    <3> QED
      BY <3>1
  <2> QED
    BY <2>1, <2>2
<1> QED
  BY <1>2, WalkedToTheEnd DEF DeriveNext

-----------------------------------------------------------------------------
(* What appends build *)

\* Batches that fit into a segment: in order, and within 32 bits of its base and
\* of its start.
Fits(base, B) ==
    /\ Ordered(B)
    /\ \A n \in 1..Len(B) : base <= B[n].first /\ B[n].last - base <= MaxUint32
    /\ SizeOf(B) <= MaxUint32

\* An index whose entries are starts of batches after the first.
IndexOf(index, base, B) ==
    /\ index = [file |-> index.file, count |-> index.count]
    /\ index.file \in Seq(EntrySet) /\ index.count \in 0..Len(index.file)
    /\ \A i \in 1..index.count :
            \E n \in 2..Len(B) : index.file[i] = Entry(B[n].first - base, StartOf(B, n))
    /\ \A i \in (index.count + 1)..Len(index.file) : index.file[i] = Padding

\* The same, but it may end with the entry of a batch that is not written yet.
IndexAhead(index, base, B, first) ==
    /\ index = [file |-> index.file, count |-> index.count]
    /\ index.file \in Seq(EntrySet) /\ index.count \in 0..Len(index.file)
    /\ \A i \in 1..index.count :
            \/ \E n \in 2..Len(B) : index.file[i] = Entry(B[n].first - base, StartOf(B, n))
            \/ B # <<>> /\ i = index.count /\ index.file[i] = Entry(first - base, SizeOf(B))
    /\ \A i \in (index.count + 1)..Len(index.file) : index.file[i] = Padding

SegmentRecord(base, B, size, next, index, since, thrown) ==
    [base |-> base, batches |-> B, size |-> size, next |-> next,
     index |-> index, since |-> since, thrown |-> thrown]

\* A segment that has seen nothing go wrong.
SegmentWith(base, B, next, index, since) ==
    SegmentRecord(base, B, SizeOf(B), next, index, since, FALSE)

\* The segment with these batches, appended one after the other to a new one.
Built(s, base, capacity, B) ==
    /\ s = SegmentWith(base, B, EndOf(base, B), s.index, s.since)
    /\ s.since \in Nat
    /\ IndexOf(s.index, base, B)
    /\ Len(s.index.file) = capacity

\* A batch that may come next.
Follows(b, base, B) ==
    /\ b \in BatchSet /\ b.first <= b.last /\ base <= b.first /\ b.last - base <= MaxUint32
    /\ \A n \in 1..Len(B) : B[n].last < b.first

\* Nothing takes no bytes.
LEMMA SizeOfNone == SizeOf(<<>>) = 0
<1>1. <<>> \in Seq(BatchSet) /\ Len(<<>>) = 0
  OBVIOUS
<1> QED
  BY <1>1, BytesAre DEF SizeOf

\* A log that has batches has bytes.
LEMMA SizeOfSome ==
    ASSUME NEW B \in Seq(BatchSet)
    PROVE  SizeOf(B) \in Nat /\ (SizeOf(B) = 0 <=> B = <<>>)
<1>1. Len(B) \in Nat /\ 0 \in 0..Len(B) /\ Len(B) \in 0..Len(B) /\ (Len(B) = 0 <=> B = <<>>)
  OBVIOUS
<1>2. Len(B) > 0 => BytesAfter(B)[0] < BytesAfter(B)[Len(B)]
  BY <1>1, BytesAre
<1>3. BytesAfter(B)[0] = 0 /\ BytesAfter(B)[Len(B)] \in Nat
  BY <1>1, BytesAre
<1> QED
  BY <1>1, <1>2, <1>3 DEF SizeOf

\* A new segment is built of no batches.
LEMMA NewSegmentIsBuilt ==
    ASSUME NEW base \in Nat, NEW capacity \in Nat
    PROVE  Built(CreateSegment(base, capacity), base, capacity, <<>>)
<1> DEFINE s == CreateSegment(base, capacity)
           file == [i \in 1..capacity |-> Padding]
<1>1. file \in Seq(EntrySet) /\ Len(file) = capacity /\ \A i \in 1..capacity : file[i] = Padding
  <2>1. Padding \in EntrySet
    BY DEF Padding, Entry, EntrySet
  <2> QED
    BY <2>1
<1>2. /\ s = [base |-> base, batches |-> <<>>, size |-> 0, next |-> base,
              index |-> [file |-> file, count |-> 0], since |-> 0, thrown |-> FALSE]
  BY DEF CreateSegment, CreateIndex
<1> HIDE DEF file
<1>3. IndexOf([file |-> file, count |-> 0], base, <<>>)
  BY <1>1 DEF IndexOf
<1>4. /\ s.index = [file |-> file, count |-> 0] /\ s.since = 0
      /\ SizeOf(<<>>) = 0 /\ EndOf(base, <<>>) = base
  BY <1>2, SizeOfNone DEF EndOf
<1>5. Len(s.index.file) = capacity
  BY <1>1, <1>4
<1> HIDE DEF s
<1>6. Built(s, base, capacity, <<>>)
  BY <1>2, <1>3, <1>4, <1>5 DEF Built, SegmentWith, SegmentRecord
<1> QED
  BY <1>6 DEF s

\* The entry of the batch that comes next is added, unless the index is full.
LEMMA AppendEntryDoes ==
    ASSUME NEW index, NEW base \in Nat, NEW B, Fits(base, B), B # <<>>, IndexOf(index, base, B),
           NEW b, Follows(b, base, B)
    PROVE  LET t == AppendEntry(index, b.first - base, SizeOf(B))
           IN  /\ IndexAhead(t, base, B, b.first)
               /\ Len(t.file) = Len(index.file)
               /\ \/ index.count = Len(index.file) /\ t = index
                  \/ t.count > 0 /\ t.file[t.count].position = SizeOf(B)
<1> DEFINE e    == Entry(b.first - base, SizeOf(B))
           t    == AppendEntry(index, b.first - base, SizeOf(B))
           file == [index.file EXCEPT ![index.count + 1] = e]
<1>1. /\ index.file \in Seq(EntrySet) /\ index.count \in 0..Len(index.file)
      /\ Len(index.file) \in Nat /\ B \in Seq(BatchSet)
  BY DEF IndexOf, Fits, Ordered
<1>2. CASE index.count >= Len(index.file)
  <2>1. t = index /\ index.count = Len(index.file)
    BY <1>1, <1>2 DEF AppendEntry
  <2>2. IndexAhead(index, base, B, b.first)
    BY DEF IndexOf, IndexAhead
  <2> HIDE DEF t
  <2>3. IndexAhead(t, base, B, b.first) /\ Len(t.file) = Len(index.file)
    BY ONLY <2>1, <2>2
  <2> QED
    BY <2>1, <2>3 DEF t
<1>3. CASE ~(index.count >= Len(index.file))
  <2>1. t = [file |-> file, count |-> index.count + 1]
    BY <1>3 DEF AppendEntry
  <2>2. SizeOf(B) \in Nat /\ b.first - base \in Nat
    <3>1. SizeOf(B) \in Nat
      BY <1>1, SizeOfSome
    <3>2. b.first \in Nat /\ base <= b.first
      BY DEF Follows, BatchSet
    <3> QED
      BY <3>1, <3>2
  <2>3. e \in EntrySet /\ e.position = SizeOf(B)
    BY <2>2 DEF Entry, EntrySet
  <2>4. index.count + 1 \in 1..Len(index.file)
    BY <1>1, <1>3
  <2> HIDE DEF e
  <2>5. /\ file \in Seq(EntrySet) /\ Len(file) = Len(index.file)
        /\ file[index.count + 1] = e
        /\ \A i \in 1..Len(index.file) : i # index.count + 1 => file[i] = index.file[i]
    BY <1>1, <2>3, <2>4
  <2> HIDE DEF file, t
  <2>6. t.file = file /\ t.count = index.count + 1 /\ t = [file |-> t.file, count |-> t.count]
    BY <2>1
  <2>7. ASSUME NEW i \in 1..t.count
        PROVE  \/ \E n \in 2..Len(B) : t.file[i] = Entry(B[n].first - base, StartOf(B, n))
               \/ B # <<>> /\ i = t.count /\ t.file[i] = Entry(b.first - base, SizeOf(B))
    <3>1. CASE i = t.count
      BY <2>5, <2>6, <3>1 DEF e
    <3>2. CASE i # t.count
      <4>1. i \in 1..index.count /\ i # index.count + 1 /\ i \in 1..Len(index.file)
        BY <1>1, <2>6, <3>2
      <4>2. t.file[i] = index.file[i]
        BY <2>5, <2>6, <4>1
      <4>3. \E n \in 2..Len(B) : index.file[i] = Entry(B[n].first - base, StartOf(B, n))
        BY <4>1 DEF IndexOf
      <4> QED
        BY <4>2, <4>3
    <3> QED
      BY <3>1, <3>2
  <2>8. ASSUME NEW i \in (t.count + 1)..Len(t.file) PROVE t.file[i] = Padding
    <3>1. i \in (index.count + 1)..Len(index.file) /\ i # index.count + 1 /\ i \in 1..Len(index.file)
      BY <1>1, <2>5, <2>6
    <3>2. index.file[i] = Padding
      BY <3>1 DEF IndexOf
    <3> QED
      BY <2>5, <2>6, <3>1, <3>2
  <2>9. t.file \in Seq(EntrySet) /\ t.count \in 0..Len(t.file) /\ t.count > 0
    BY <1>1, <2>4, <2>5, <2>6
  <2>10. IndexAhead(t, base, B, b.first)
    BY <2>6, <2>7, <2>8, <2>9 DEF IndexAhead
  <2>11. t.file[t.count].position = SizeOf(B)
    BY <2>3, <2>5, <2>6
  <2> QED
    BY <2>5, <2>6, <2>9, <2>10, <2>11 DEF t
<1> QED
  BY <1>2, <1>3

\* append() of the next batch does not throw: the entry is beyond every other.
LEMMA NothingIsThrown ==
    ASSUME NEW index, NEW base \in Nat, NEW B, Fits(base, B), B # <<>>, IndexOf(index, base, B),
           NEW b, Follows(b, base, B), MaxUint32 \in Nat
    PROVE  ~AppendThrows(index, b.first - base, SizeOf(B))
<1> DEFINE last == index.file[index.count]
<1>1. /\ B \in Seq(BatchSet) /\ Len(B) \in Nat
      /\ \A n \in 1..Len(B) : B[n] \in BatchSet
  BY DEF Fits, Ordered
<1>2. /\ SizeOf(B) \in Nat /\ SizeOf(B) # 0 /\ SizeOf(B) <= MaxUint32
      /\ b.first \in Nat /\ b.first - base \in Nat /\ b.first - base <= MaxUint32
  <2>1. SizeOf(B) \in Nat /\ SizeOf(B) # 0 /\ SizeOf(B) <= MaxUint32
    BY <1>1, SizeOfSome DEF Fits
  <2>2. b.first \in Nat /\ b.last \in Nat /\ b.first <= b.last /\ base <= b.first
        /\ b.last - base <= MaxUint32
    BY DEF Follows, BatchSet
  <2> DEFINE x == b.first
             y == b.last
  <2> HIDE DEF x, y
  <2>3. x - base \in Nat /\ x - base <= MaxUint32
    BY <2>2 DEF x, y
  <2> QED
    BY <2>1, <2>2, <2>3 DEF x
<1>3. ASSUME index.count > 0
      PROVE  last.relative < b.first - base /\ last.position < SizeOf(B)
             /\ last.relative \in Int /\ last.position \in Int
  <2>1. index.count \in 1..index.count
    BY <1>3 DEF IndexOf
  <2>2. PICK n \in 2..Len(B) : last = Entry(B[n].first - base, StartOf(B, n))
    BY <2>1 DEF IndexOf
  <2>3. n \in 1..Len(B) /\ n - 1 \in 0..Len(B) /\ n \in 0..Len(B)
    BY <1>1
  <2>4. B[n].first <= B[n].last /\ B[n].last < b.first
    BY <2>3 DEF Fits, Ordered, Follows
  <2>5. B[n].first \in Nat /\ B[n].last \in Nat /\ B[n].size \in Nat \ {0}
    BY <1>1, <2>3 DEF BatchSet
  <2>6. /\ StartOf(B, n) \in Nat /\ BytesAfter(B)[n] \in Nat
        /\ StartOf(B, n) < BytesAfter(B)[n]
    <3>1. BytesAfter(B)[n - 1] \in Nat /\ BytesAfter(B)[n] = BytesAfter(B)[n - 1] + B[n].size
      BY <1>1, <2>3, BytesAre
    <3> QED
      BY <2>5, <3>1 DEF StartOf
  <2>7. BytesAfter(B)[n] <= SizeOf(B)
    BY <1>1, <2>3, BytesWithin
  <2>8. last.relative = B[n].first - base /\ last.position = StartOf(B, n)
    BY <2>2 DEF Entry
  <2> HIDE DEF last
  <2>9. B[n].first - base < b.first - base /\ B[n].first - base \in Int
    <3> DEFINE x == B[n].first
               y == B[n].last
               z == b.first
    <3>1. x \in Nat /\ y \in Nat /\ z \in Nat /\ base \in Int /\ x <= y /\ y < z
      BY <1>2, <2>4, <2>5
    <3> HIDE DEF x, y, z
    <3>2. x - base < z - base /\ x - base \in Int
      BY <3>1
    <3> QED
      BY <3>2 DEF x, z
  <2>10. StartOf(B, n) < SizeOf(B)
    BY <1>2, <2>6, <2>7
  <2> QED
    BY <2>6, <2>8, <2>9, <2>10
<1> HIDE DEF last
<1>4. index.count > 0 => ~(b.first - base <= last.relative) /\ ~(SizeOf(B) <= last.position)
  BY <1>2, <1>3
<1> DEFINE relative == b.first - base
           position == SizeOf(B)
<1>5. ~(position = 0) /\ ~(relative < 0) /\ ~(relative > MaxUint32) /\ ~(position > MaxUint32)
  BY <1>2
<1>6. index.count > 0 => ~(relative <= last.relative) /\ ~(position <= last.position)
  BY <1>4
<1> HIDE DEF relative, position
<1>7. ~AppendThrows(index, relative, position)
  BY ONLY <1>5, <1>6 DEF AppendThrows, last
<1> QED
  BY <1>7 DEF relative, position

\* What the steps of append() change of a segment.
WithIndex(s, x, y, z)   == [s EXCEPT !.thrown = x, !.index = y, !.since = z]
WithBatches(s, x, y, z) == [s EXCEPT !.batches = x, !.size = y, !.since = z]
WithNext(s, x)          == [s EXCEPT !.next = x]

\* A record of which the index was changed.
LEMMA IndexChanges ==
    ASSUME NEW a, NEW b, NEW c, NEW d, NEW e, NEW f, NEW g, NEW x, NEW y, NEW z
    PROVE  WithIndex(SegmentRecord(a, b, c, d, e, f, g), x, y, z)
                = SegmentRecord(a, b, c, d, y, z, x)
<1>1. [SegmentRecord(a, b, c, d, e, f, g) EXCEPT !.thrown = x] = SegmentRecord(a, b, c, d, e, f, x)
  BY DEF SegmentRecord
<1>2. [SegmentRecord(a, b, c, d, e, f, x) EXCEPT !.index = y] = SegmentRecord(a, b, c, d, y, f, x)
  BY DEF SegmentRecord
<1>3. [SegmentRecord(a, b, c, d, y, f, x) EXCEPT !.since = z] = SegmentRecord(a, b, c, d, y, z, x)
  BY DEF SegmentRecord
<1>4. WithIndex(SegmentRecord(a, b, c, d, e, f, g), x, y, z)
            = [[[SegmentRecord(a, b, c, d, e, f, g) EXCEPT !.thrown = x]
                    EXCEPT !.index = y] EXCEPT !.since = z]
  BY DEF WithIndex
<1> QED
  BY <1>1, <1>2, <1>3, <1>4, Zenon

\* One of which the batches were.
LEMMA BatchesChange ==
    ASSUME NEW a, NEW b, NEW c, NEW d, NEW e, NEW f, NEW g, NEW x, NEW y, NEW z
    PROVE  WithBatches(SegmentRecord(a, b, c, d, e, f, g), x, y, z)
                = SegmentRecord(a, x, y, d, e, z, g)
<1>1. [SegmentRecord(a, b, c, d, e, f, g) EXCEPT !.batches = x] = SegmentRecord(a, x, c, d, e, f, g)
  BY DEF SegmentRecord
<1>2. [SegmentRecord(a, x, c, d, e, f, g) EXCEPT !.size = y] = SegmentRecord(a, x, y, d, e, f, g)
  BY DEF SegmentRecord
<1>3. [SegmentRecord(a, x, y, d, e, f, g) EXCEPT !.since = z] = SegmentRecord(a, x, y, d, e, z, g)
  BY DEF SegmentRecord
<1>4. WithBatches(SegmentRecord(a, b, c, d, e, f, g), x, y, z)
            = [[[SegmentRecord(a, b, c, d, e, f, g) EXCEPT !.batches = x]
                    EXCEPT !.size = y] EXCEPT !.since = z]
  BY DEF WithBatches
<1> QED
  BY <1>1, <1>2, <1>3, <1>4, Zenon

\* One of which the next offset was.
LEMMA NextChanges ==
    ASSUME NEW a, NEW b, NEW c, NEW d, NEW e, NEW f, NEW g, NEW x
    PROVE  WithNext(SegmentRecord(a, b, c, d, e, f, g), x)
                = SegmentRecord(a, b, c, x, e, f, g)
BY DEF SegmentRecord, WithNext

\* A segment s whose index was added to, for a batch that begins at `first`.
Added(t, s, base, B, capacity, first) ==
    /\ t = SegmentWith(base, B, EndOf(base, B), t.index, t.since)
    /\ t.since \in Nat /\ IndexAhead(t.index, base, B, first)
    /\ Len(t.index.file) = capacity
    /\ \/ t = s
       \/ /\ B # <<>> /\ t.since = 0
          /\ \/ s.index.count = capacity
             \/ /\ t.index.count > 0
                /\ t.index.file[t.index.count].position = SizeOf(B)

\* maybeAddIndexEntry() changes the index and nothing else, and does not throw.
LEMMA AddIndexEntryDoes ==
    ASSUME NEW base \in Nat, NEW B, Fits(base, B), NEW s, NEW capacity \in Nat,
           Built(s, base, capacity, B), NEW b, Follows(b, base, B), NEW interval \in Nat,
           MaxUint32 \in Nat
    PROVE  Added(AddIndexEntry(s, interval, b), s, base, B, capacity, b.first)
<1> DEFINE t     == AddIndexEntry(s, interval, b)
           index == AppendEntry(s.index, b.first - base, SizeOf(B))
<1>1. /\ s = SegmentWith(base, B, EndOf(base, B), s.index, s.since)
      /\ s.since \in Nat /\ IndexOf(s.index, base, B) /\ Len(s.index.file) = capacity
      /\ B \in Seq(BatchSet)
  BY DEF Built, Fits, Ordered
<1>2. s.base = base /\ s.size = SizeOf(B) /\ s.thrown = FALSE
  BY <1>1 DEF SegmentWith, SegmentRecord
<1>3. CASE s.since < interval \/ s.size = 0
  <2>1. t = s
    BY <1>3 DEF AddIndexEntry
  <2>2. IndexAhead(s.index, base, B, b.first)
    BY <1>1 DEF IndexOf, IndexAhead
  <2> QED
    BY <1>1, <2>1, <2>2 DEF Added
<1>4. CASE ~(s.since < interval \/ s.size = 0)
  <2>1. B # <<>>
    BY <1>1, <1>2, <1>4, SizeOfSome
  <2>2. ~AppendThrows(s.index, b.first - base, SizeOf(B))
    BY <1>1, <2>1, NothingIsThrown, Zenon
  <2>3. t = [s EXCEPT !.thrown = @ \/ AppendThrows(s.index, b.first - base, SizeOf(B)),
                      !.index = index, !.since = 0]
    BY <1>2, <1>4 DEF AddIndexEntry
  <2>4. (s.thrown \/ AppendThrows(s.index, b.first - base, SizeOf(B))) = FALSE
    BY <1>2, <2>2
  <2>5. t = [s EXCEPT !.thrown = FALSE, !.index = index, !.since = 0]
    BY <2>3, <2>4, Zenon
  <2> HIDE DEF index
  <2>6. t = SegmentWith(base, B, EndOf(base, B), index, 0)
    <3> DEFINE no   == FALSE
               none == 0
               n    == SizeOf(B)
               next == EndOf(base, B)
    <3>1. /\ s = SegmentRecord(base, B, n, next, s.index, s.since, no)
          /\ t = WithIndex(s, no, index, none)
      BY <1>1, <2>5, Zenon DEF SegmentWith, WithIndex
    <3> HIDE DEF no, none, n, next, t
    <3>2. t = SegmentRecord(base, B, n, next, index, none, no)
      BY <3>1, IndexChanges
    <3> QED
      BY <3>2 DEF SegmentWith, no, none, n, next
  <2> HIDE DEF t
  <2>7. t.index = index /\ t.since = 0
    BY <2>6 DEF SegmentWith, SegmentRecord
  <2>8. /\ IndexAhead(index, base, B, b.first)
        /\ Len(index.file) = Len(s.index.file)
        /\ \/ s.index.count = Len(s.index.file) /\ index = s.index
           \/ index.count > 0 /\ index.file[index.count].position = SizeOf(B)
    <3> DEFINE old == s.index
    <3>1. IndexOf(old, base, B)
      BY <1>1
    <3> HIDE DEF old
    <3> DEFINE new == AppendEntry(old, b.first - base, SizeOf(B))
    <3>2. /\ IndexAhead(new, base, B, b.first)
          /\ Len(new.file) = Len(old.file)
          /\ \/ old.count = Len(old.file) /\ new = old
             \/ new.count > 0 /\ new.file[new.count].position = SizeOf(B)
      BY <2>1, <3>1, AppendEntryDoes
    <3> QED
      BY <3>2, Zenon DEF old, index
  <2> QED
    BY <1>1, <2>1, <2>6, <2>7, <2>8 DEF t, Added
<1> QED
  BY <1>3, <1>4

\* Asked a second time at the same place, it does nothing.
LEMMA AddedOnce ==
    ASSUME NEW base, NEW B, NEW s, NEW capacity, Built(s, base, capacity, B),
           NEW b, NEW c, b.first = c.first, NEW interval \in Nat \ {0}
    PROVE  AddIndexEntry(AddIndexEntry(s, interval, b), interval, c)
                = AddIndexEntry(s, interval, b)
<1> DEFINE t == AddIndexEntry(s, interval, b)
<1>1. CASE s.since < interval \/ s.size = 0
  <2>1. t = s
    BY <1>1 DEF AddIndexEntry
  <2>2. AddIndexEntry(s, interval, c) = s
    BY <1>1 DEF AddIndexEntry
  <2> QED
    BY <2>1, <2>2
<1>2. CASE ~(s.since < interval \/ s.size = 0)
  <2>1. s = SegmentWith(base, B, EndOf(base, B), s.index, s.since)
    BY DEF Built
  <2>2. t = [s EXCEPT !.thrown = @ \/ AppendThrows(s.index, b.first - s.base, s.size),
                      !.index  = AppendEntry(@, b.first - s.base, s.size),
                      !.since  = 0]
    BY <1>2 DEF AddIndexEntry
  <2>3. t.since = 0
    BY <2>1, <2>2 DEF SegmentWith, SegmentRecord
  <2> HIDE DEF t
  <2>4. t.since < interval
    BY <2>3
  <2>5. AddIndexEntry(t, interval, c) = t
    BY <2>4 DEF AddIndexEntry
  <2> QED
    BY <2>5 DEF t
<1> QED
  BY <1>1, <1>2

\* Once the batch is written its entry is one like the others.
LEMMA EntryIsCaughtUp ==
    ASSUME NEW base \in Nat, NEW B \in Seq(BatchSet), NEW b \in BatchSet, NEW index,
           IndexAhead(index, base, B, b.first)
    PROVE  IndexOf(index, base, Append(B, b))
<1> DEFINE C == Append(B, b)
<1>1. /\ Len(B) \in Nat /\ C \in Seq(BatchSet) /\ Len(C) = Len(B) + 1
      /\ \A i \in 1..Len(B) : C[i] = B[i]
      /\ C[Len(B) + 1] = b
      /\ \A i \in 0..Len(B) : BytesAfter(C)[i] = BytesAfter(B)[i]
  BY BytesOfAppend
<1> HIDE DEF C
<1>2. \A n \in 1..Len(B) : StartOf(C, n) = StartOf(B, n)
  BY <1>1 DEF StartOf
<1>3. StartOf(C, Len(B) + 1) = SizeOf(B)
  BY <1>1 DEF StartOf, SizeOf
<1>4. ASSUME NEW i \in 1..index.count
      PROVE  \E n \in 2..Len(C) : index.file[i] = Entry(C[n].first - base, StartOf(C, n))
  <2>1. CASE \E n \in 2..Len(B) : index.file[i] = Entry(B[n].first - base, StartOf(B, n))
    <3>1. PICK n \in 2..Len(B) : index.file[i] = Entry(B[n].first - base, StartOf(B, n))
      BY <2>1
    <3>2. n \in 2..Len(C) /\ C[n] = B[n] /\ StartOf(C, n) = StartOf(B, n)
      BY <1>1, <1>2
    <3> QED
      BY <3>1, <3>2
  <2>2. CASE B # <<>> /\ index.file[i] = Entry(b.first - base, SizeOf(B))
    <3>1. Len(B) + 1 \in 2..Len(C)
      BY <1>1, <2>2
    <3> QED
      BY <1>1, <1>3, <2>2, <3>1
  <2> QED
    BY <2>1, <2>2 DEF IndexAhead
<1> QED
  BY <1>4 DEF IndexAhead, IndexOf, C

\* A whole append() of the next batch.
LEMMA AppendedIsBuilt ==
    ASSUME NEW base \in Nat, NEW B, Fits(base, B), NEW s, NEW capacity \in Nat,
           Built(s, base, capacity, B), NEW b, Follows(b, base, B), NEW interval \in Nat,
           MaxUint32 \in Nat
    PROVE  Built(Appended(s, interval, b), base, capacity, Append(B, b))
<1> DEFINE t == AddIndexEntry(s, interval, b)
           u == Appended(s, interval, b)
<1>0. Added(t, s, base, B, capacity, b.first)
  BY AddIndexEntryDoes, Zenon
<1>1. /\ t = SegmentWith(base, B, EndOf(base, B), t.index, t.since)
      /\ t.since \in Nat /\ IndexAhead(t.index, base, B, b.first)
      /\ Len(t.index.file) = capacity
  BY <1>0 DEF Added
<1>2. u = PublishBatch(WriteBatch(t, b), b)
  BY DEF Appended
<1>3. B \in Seq(BatchSet) /\ b \in BatchSet
  BY DEF Fits, Ordered, Follows
<1>4. /\ SizeOf(Append(B, b)) = SizeOf(B) + b.size /\ b.size \in Nat
      /\ Len(Append(B, b)) = Len(B) + 1 /\ Append(B, b)[Len(B) + 1] = b
      /\ Len(B) \in Nat /\ Append(B, b) # <<>>
  <2>1. b.size \in Nat /\ Len(B) \in Nat
    BY <1>3 DEF BatchSet
  <2>2. /\ SizeOf(Append(B, b)) = SizeOf(B) + b.size
        /\ Len(Append(B, b)) = Len(B) + 1 /\ Append(B, b)[Len(B) + 1] = b
    <3> DEFINE C == Append(B, b)
    <3>1. SizeOf(C) = SizeOf(B) + b.size /\ Len(C) = Len(B) + 1 /\ C[Len(B) + 1] = b
      BY <1>3, BytesOfAppend
    <3> QED
      BY <3>1
  <2>3. Append(B, b) # <<>>
    BY <2>1, <2>2
  <2> QED
    BY <2>1, <2>2, <2>3
<1>5. EndOf(base, Append(B, b)) = b.last + 1
  BY <1>4 DEF EndOf
<1> HIDE DEF t, u
<1>6. u = SegmentWith(base, Append(B, b), EndOf(base, Append(B, b)), t.index, t.since + b.size)
  <2> DEFINE C == Append(B, b)
             v == WriteBatch(t, b)
  <2>1. t.batches = B /\ t.size = SizeOf(B)
    BY <1>1 DEF SegmentWith, SegmentRecord
  <2>2. v = [t EXCEPT !.batches = C, !.size = SizeOf(C), !.since = t.since + b.size]
    BY <1>4, <2>1 DEF WriteBatch
  <2> HIDE DEF C, v
  <2>4. u = [v EXCEPT !.next = EndOf(base, C)]
    BY <1>2, <1>5 DEF PublishBatch, v, C
  <2>5. u = SegmentWith(base, C, EndOf(base, C), t.index, t.since + b.size)
    <3> DEFINE no   == FALSE
               n    == SizeOf(B)
               m    == SizeOf(C)
               next == EndOf(base, B)
               new  == EndOf(base, C)
               more == t.since + b.size
    <3>1. /\ t = SegmentRecord(base, B, n, next, t.index, t.since, no)
          /\ v = WithBatches(t, C, m, more)
          /\ u = WithNext(v, new)
      BY <1>1, <2>2, <2>4, Zenon DEF SegmentWith, WithBatches, WithNext
    <3> HIDE DEF no, n, m, next, new, more
    <3>2. v = SegmentRecord(base, C, m, next, t.index, more, no)
      BY <3>1, BatchesChange
    <3>3. u = SegmentRecord(base, C, m, new, t.index, more, no)
      BY <3>1, <3>2, NextChanges
    <3> QED
      BY <3>3 DEF SegmentWith, no, m, new, more
  <2> QED
    BY <2>5 DEF C
<1>7. u.index = t.index /\ u.since = t.since + b.size
  BY <1>6 DEF SegmentWith, SegmentRecord
<1>8. IndexOf(t.index, base, Append(B, b))
  BY <1>1, <1>3, EntryIsCaughtUp
<1>9. Built(u, base, capacity, Append(B, b))
  BY <1>1, <1>4, <1>6, <1>7, <1>8 DEF Built
<1> QED
  BY <1>9 DEF u

-----------------------------------------------------------------------------
(* What rewriteSegment() and recover() build *)

\* The batches up to the i-th are those before it, and it.
LEMMA PrefixGrows ==
    ASSUME NEW S, NEW B \in Seq(S), NEW i \in 1..Len(B)
    PROVE  /\ SubSeq(B, 1, i) = Append(SubSeq(B, 1, i - 1), B[i])
           /\ SubSeq(B, 1, i - 1) \in Seq(S) /\ Len(SubSeq(B, 1, i - 1)) = i - 1
           /\ \A n \in 1..(i - 1) : SubSeq(B, 1, i - 1)[n] = B[n]
<1>1. /\ Len(B) \in Nat /\ 1 \in 1..Len(B) /\ i \in 1..Len(B) /\ 1 \in Int /\ i - 1 \in Int
      /\ \A n \in 1..(i - 1) : B[n] \in S
  OBVIOUS
<1> DEFINE P == SubSeq(B, 1, i - 1)
<1>2. /\ P \in Seq(S)
      /\ Len(P) = IF 1 <= i - 1 THEN i - 1 - 1 + 1 ELSE 0
      /\ \A n \in 1..(i - 1 - 1 + 1) : P[n] = B[1 + n - 1]
  BY <1>1, SubSeqProperties
<1>3. SubSeq(B, 1, i) = P \o <<B[i]>>
  BY <1>1, SubSeqRecursiveSecond, Zenon
<1>4. B[i] \in S
  BY <1>1
<1> HIDE DEF P
<1>5. Append(P, B[i]) = P \o <<B[i]>>
  BY <1>2, <1>4, AppendIsConcat, Zenon
<1>6. Len(P) = i - 1
  BY <1>1, <1>2
<1>7. \A n \in 1..(i - 1) : P[n] = B[n]
  BY <1>1, <1>2
<1>8. P \in Seq(S)
  BY <1>2
<1>9. SubSeq(B, 1, i) = Append(P, B[i])
  BY <1>3, <1>5, Zenon
<1> QED
  BY <1>6, <1>7, <1>8, <1>9 DEF P

\* Of batches that fit, those before one fit, and it follows them.
LEMMA FitsOneLess ==
    ASSUME NEW base \in Nat, NEW B, Fits(base, B), NEW i \in 1..Len(B), MaxUint32 \in Nat
    PROVE  /\ Fits(base, SubSeq(B, 1, i - 1))
           /\ Follows(B[i], base, SubSeq(B, 1, i - 1))
<1> DEFINE P == SubSeq(B, 1, i - 1)
<1>1. B \in Seq(BatchSet) /\ Len(B) \in Nat /\ \A n \in 1..Len(B) : B[n] \in BatchSet
  BY DEF Fits, Ordered
<1>2. /\ P \in Seq(BatchSet) /\ Len(P) = i - 1
      /\ \A n \in 1..(i - 1) : P[n] = B[n]
  BY <1>1, PrefixGrows
<1> HIDE DEF P
<1>3. i - 1 \in 0..Len(B) /\ \A n \in 1..Len(P) : n \in 1..Len(B) /\ P[n] = B[n] /\ n < i
  BY <1>1, <1>2
<1>4. BytesAfter(P)[Len(P)] = BytesAfter(B)[Len(P)]
  <2>1. Len(P) \in Nat /\ Len(P) \in 0..Len(P) /\ Len(P) <= Len(B) /\ \A n \in 1..Len(P) : P[n].size = B[n].size
    BY <1>1, <1>2, <1>3
  <2> QED
    BY <1>1, <1>2, <2>1, BytesOfPrefix
<1>5. SizeOf(P) <= MaxUint32
  <2>1. BytesAfter(B)[i - 1] <= SizeOf(B) /\ SizeOf(B) \in Nat /\ SizeOf(B) <= MaxUint32
    BY <1>1, <1>3, BytesWithin DEF Fits
  <2>2. SizeOf(P) = BytesAfter(B)[i - 1] /\ BytesAfter(B)[i - 1] \in Nat
    BY <1>1, <1>2, <1>3, <1>4, BytesAre DEF SizeOf
  <2> QED
    BY <2>1, <2>2
<1>6. Ordered(P)
  BY <1>2, <1>3 DEF Fits, Ordered
<1>7. Fits(base, P)
  BY <1>3, <1>5, <1>6 DEF Fits
<1>8. Follows(B[i], base, P)
  <2>1. \A n \in 1..Len(P) : P[n].last < B[i].first
    BY <1>3 DEF Fits, Ordered
  <2>2. B[i] \in BatchSet /\ B[i].first <= B[i].last /\ base <= B[i].first
        /\ B[i].last - base <= MaxUint32
    BY <1>1 DEF Fits, Ordered
  <2> QED
    BY <2>1, <2>2 DEF Follows
<1> QED
  BY <1>7, <1>8 DEF P

\* The loop of rewriteSegment() appends each batch.
LEMMA RewrittenAfterIs ==
    ASSUME NEW base, NEW capacity, NEW interval, NEW B, Len(B) \in Nat
    PROVE  RewrittenAfter(base, capacity, interval, B) =
                [i \in 0..Len(B) |->
                    IF i = 0 THEN CreateSegment(base, capacity)
                    ELSE Appended(RewrittenAfter(base, capacity, interval, B)[i - 1],
                                  interval, B[i])]
<1> DEFINE n == Len(B)
           start == CreateSegment(base, capacity)
           Turn(s, i) == Appended(s, interval, B[i])
           Is(g, k) == g = [i \in 0..k |-> IF i = 0 THEN start ELSE Turn(g[i - 1], i)]
           Reached == {k \in Nat : \E g : Is(g, k)}
<1> HIDE DEF Turn, n, start
<1>1. 0 \in Reached
  <2>1. Is([i \in 0..0 |-> start], 0)
    OBVIOUS
  <2> QED
    BY <2>1
<1>2. ASSUME NEW k \in 1..n, k - 1 \in Reached PROVE k \in Reached
  <2>1. PICK g : Is(g, k - 1)
    BY <1>2
  <2> DEFINE h == [i \in 0..k |-> IF i = k THEN Turn(g[k - 1], k) ELSE g[i]]
  <2>2. \A i \in 0..k : i # k => i \in 0..(k - 1)
    OBVIOUS
  <2>3. \A i \in 0..(k - 1) : g[i] = IF i = 0 THEN start ELSE Turn(g[i - 1], i)
    BY <2>1
  <2>4. \A i \in 1..k : h[i - 1] = g[i - 1]
    OBVIOUS
  <2>5. \A i \in 0..k : h[i] = IF i = 0 THEN start ELSE Turn(h[i - 1], i)
    BY <2>2, <2>3, <2>4
  <2>6. Is(h, k)
    BY <2>5
  <2> HIDE DEF h, Is
  <2>7. k \in Nat /\ \E f : Is(f, k)
    BY <2>6
  <2> QED
    BY <2>7
<1> HIDE DEF Reached
<1>3. n \in Nat
  BY DEF n
<1>4. n \in Reached
  <2>1. \A k \in 0..n : k \in Reached
    BY <1>1, <1>2, <1>3, AllUpTo
  <2> QED
    BY <1>3, <2>1
<1>5. \E g : Is(g, n)
  BY <1>4 DEF Reached
<1> QED
  BY <1>5 DEF RewrittenAfter, n, start, Turn

\* g is a new segment, and after every turn what the batch of that turn makes of it.
Rewrites(g, base, capacity, interval, B) ==
    /\ g[0] = CreateSegment(base, capacity)
    /\ \A i \in 1..Len(B) : g[i] = Appended(g[i - 1], interval, B[i])

\* So does the loop of rewriteSegment().
LEMMA RewrittenAfterRewrites ==
    ASSUME NEW base, NEW capacity, NEW interval, NEW B, Len(B) \in Nat
    PROVE  Rewrites(RewrittenAfter(base, capacity, interval, B), base, capacity, interval, B)
<1> DEFINE g == RewrittenAfter(base, capacity, interval, B)
<1>1. g = [i \in 0..Len(B) |-> IF i = 0 THEN CreateSegment(base, capacity)
                               ELSE Appended(g[i - 1], interval, B[i])]
  BY RewrittenAfterIs
<1> HIDE DEF g
<1>2. g[0] = CreateSegment(base, capacity)
  BY <1>1
<1>3. \A i \in 1..Len(B) : g[i] = Appended(g[i - 1], interval, B[i])
  <2>1. \A i \in 1..Len(B) : i \in 0..Len(B) /\ i # 0
    OBVIOUS
  <2> QED
    BY <1>1, <2>1
<1> QED
  BY <1>2, <1>3 DEF Rewrites, g

\* After every turn there is what appending the batches up to there builds.
LEMMA RewrittenSoFar ==
    ASSUME NEW base \in Nat, NEW B, Fits(base, B), NEW capacity \in Nat, NEW interval \in Nat,
           MaxUint32 \in Nat
    PROVE  \A i \in 0..Len(B) :
                Built(RewrittenAfter(base, capacity, interval, B)[i], base, capacity,
                      SubSeq(B, 1, i))
<1> DEFINE g == RewrittenAfter(base, capacity, interval, B)
           T == {i \in 0..Len(B) : Built(g[i], base, capacity, SubSeq(B, 1, i))}
<1>1. B \in Seq(BatchSet) /\ Len(B) \in Nat
  BY DEF Fits, Ordered
<1>2. Rewrites(g, base, capacity, interval, B)
  BY <1>1, RewrittenAfterRewrites
<1> HIDE DEF g
<1>3. g[0] = CreateSegment(base, capacity)
  BY <1>2 DEF Rewrites
<1>4. \A i \in 1..Len(B) : g[i] = Appended(g[i - 1], interval, B[i])
  BY <1>2 DEF Rewrites
<1>5. 0 \in T
  <2>1. SubSeq(B, 1, 0) = <<>>
    BY SubSeqEmpty
  <2>2. Built(g[0], base, capacity, <<>>)
    BY <1>3, NewSegmentIsBuilt
  <2>3. Built(g[0], base, capacity, SubSeq(B, 1, 0))
    BY <2>1, <2>2, Zenon
  <2>4. 0 \in 0..Len(B)
    BY <1>1
  <2> QED
    BY <2>3, <2>4
<1>6. ASSUME NEW i \in 1..Len(B), i - 1 \in T PROVE i \in T
  <2> DEFINE P == SubSeq(B, 1, i - 1)
             s == g[i - 1]
             b == B[i]
  <2>1. Fits(base, P) /\ Follows(b, base, P)
    BY FitsOneLess, Zenon
  <2>2. Built(s, base, capacity, P)
    BY <1>6
  <2>3. SubSeq(B, 1, i) = Append(P, b)
    BY <1>1, PrefixGrows
  <2>4. g[i] = Appended(s, interval, b)
    BY <1>4
  <2> HIDE DEF P, s, b
  <2>5. Built(Appended(s, interval, b), base, capacity, Append(P, b))
    BY <2>1, <2>2, AppendedIsBuilt, Zenon
  <2>6. Built(g[i], base, capacity, SubSeq(B, 1, i))
    BY <2>3, <2>4, <2>5, Zenon
  <2>7. i \in 0..Len(B)
    OBVIOUS
  <2> QED
    BY <2>6, <2>7
<1> HIDE DEF T
<1>7. \A i \in 0..Len(B) : i \in T
  BY <1>1, <1>5, <1>6, AllUpTo
<1> QED
  BY <1>7 DEF T, g

\* A rewritten segment is built of its batches.
LEMMA RewrittenIsBuilt ==
    ASSUME NEW base \in Nat, NEW B, Fits(base, B), NEW capacity \in Nat, NEW interval \in Nat,
           MaxUint32 \in Nat
    PROVE  Built(Rewritten(base, capacity, interval, B), base, capacity, B)
<1>1. B \in Seq(BatchSet) /\ Len(B) \in Nat /\ Len(B) \in 0..Len(B)
  BY DEF Fits, Ordered
<1>2. Built(RewrittenAfter(base, capacity, interval, B)[Len(B)], base, capacity,
            SubSeq(B, 1, Len(B)))
  BY <1>1, RewrittenSoFar, Zenon
<1>3. SubSeq(B, 1, Len(B)) = B
  BY <1>1, SubSeqFull
<1> QED
  BY <1>2, <1>3 DEF Rewritten

\* Rewriting one batch more is rewriting the others and appending it.
LEMMA RewrittenOneMore ==
    ASSUME NEW base, NEW B \in Seq(BatchSet), NEW b \in BatchSet, NEW capacity, NEW interval
    PROVE  Rewritten(base, capacity, interval, Append(B, b)) =
                Appended(Rewritten(base, capacity, interval, B), interval, b)
<1> DEFINE C == Append(B, b)
           g == RewrittenAfter(base, capacity, interval, B)
           h == RewrittenAfter(base, capacity, interval, C)
           T == {i \in 0..Len(B) : h[i] = g[i]}
<1>1. /\ Len(B) \in Nat /\ Len(C) = Len(B) + 1 /\ Len(C) \in Nat
      /\ \A i \in 1..Len(B) : C[i] = B[i]
      /\ C[Len(B) + 1] = b
  BY BytesOfAppend
<1> HIDE DEF C
<1>2. Rewrites(g, base, capacity, interval, B)
  BY <1>1, RewrittenAfterRewrites
<1>3. Rewrites(h, base, capacity, interval, C)
  BY <1>1, RewrittenAfterRewrites
<1> HIDE DEF g, h
<1>4. g[0] = CreateSegment(base, capacity) /\ h[0] = CreateSegment(base, capacity)
  BY <1>2, <1>3 DEF Rewrites
<1>5. \A i \in 1..Len(B) : g[i] = Appended(g[i - 1], interval, B[i])
  BY <1>2 DEF Rewrites
<1>6. \A i \in 1..Len(C) : h[i] = Appended(h[i - 1], interval, C[i])
  BY <1>3 DEF Rewrites
<1>7. 0 \in T
  BY <1>1, <1>4
<1>8. ASSUME NEW i \in 1..Len(B), i - 1 \in T PROVE i \in T
  <2>1. i \in 1..Len(C) /\ C[i] = B[i] /\ i \in 0..Len(B)
    BY <1>1
  <2>2. h[i - 1] = g[i - 1]
    BY <1>8
  <2>3. h[i] = g[i]
    BY <1>5, <1>6, <2>1, <2>2
  <2> QED
    BY <2>1, <2>3
<1> HIDE DEF T
<1>9. \A i \in 0..Len(B) : i \in T
  BY <1>1, <1>7, <1>8, AllUpTo
<1>10. h[Len(B)] = g[Len(B)]
  BY <1>1, <1>9 DEF T
<1>11. h[Len(C)] = Appended(h[Len(B)], interval, b)
  <2>1. Len(C) \in 1..Len(C) /\ Len(C) - 1 = Len(B)
    BY <1>1
  <2> QED
    BY <1>1, <1>6, <2>1
<1> QED
  BY <1>10, <1>11 DEF Rewritten, C, g, h

\* Batches that follow each other from the base on, with a byte for every record.
Chained(base, B) ==
    /\ Fits(base, B)
    /\ \A n \in 1..Len(B) : B[n].first = IF n = 1 THEN base ELSE B[n - 1].last + 1
    /\ EndOf(base, B) - base <= SizeOf(B)

\* Such a batch begins where the ones before it end.
LEMMA ChainedOneLess ==
    ASSUME NEW base \in Nat, NEW B, Chained(base, B), NEW i \in 1..Len(B)
    PROVE  B[i].first = EndOf(base, SubSeq(B, 1, i - 1))
<1> DEFINE P == SubSeq(B, 1, i - 1)
<1>1. B \in Seq(BatchSet) /\ Len(B) \in Nat
  BY DEF Chained, Fits, Ordered
<1>2. /\ P \in Seq(BatchSet) /\ Len(P) = i - 1
      /\ \A n \in 1..(i - 1) : P[n] = B[n]
  BY <1>1, PrefixGrows
<1>3. B[i].first = IF i = 1 THEN base ELSE B[i - 1].last + 1
  BY DEF Chained
<1> HIDE DEF P
<1>4. P = <<>> <=> i = 1
  BY <1>2
<1>5. i # 1 => P[Len(P)] = B[i - 1]
  BY <1>2
<1> QED
  BY <1>3, <1>4, <1>5 DEF EndOf, P

\* One turn of the loop of recover().
RecoverTurn(so, i, interval, B) ==
    IF Len(so.batches) < i - 1 \/ B[i].first # so.next THEN so
    ELSE Appended(so, interval, B[i])

\* When the batches follow each other recover() cuts nothing off: it does what
\* rewriteSegment() does.
THEOREM RecoveredIsRewritten ==
    ASSUME NEW base \in Nat, NEW B, Chained(base, B), NEW capacity \in Nat, NEW interval \in Nat,
           MaxUint32 \in Nat
    PROVE  Recovered(base, capacity, interval, B) = Rewritten(base, capacity, interval, B)
<1> DEFINE g == RewrittenAfter(base, capacity, interval, B)
           f == RecoveredAfter(base, capacity, interval, B)
           n == Len(B)
           start == CreateSegment(base, capacity)
           Turn(s, i) == RecoverTurn(s, i, interval, B)
           Is(h) == h = [i \in 0..n |-> IF i = 0 THEN start ELSE Turn(h[i - 1], i)]
           T == {i \in 0..n : f[i] = g[i]}
<1>1. Fits(base, B) /\ B \in Seq(BatchSet) /\ n \in Nat
  BY DEF Chained, Fits, Ordered
<1>2. Rewrites(g, base, capacity, interval, B)
  BY <1>1, RewrittenAfterRewrites
<1>3. \A i \in 0..n : Built(g[i], base, capacity, SubSeq(B, 1, i))
  BY <1>1, RewrittenSoFar, Zenon
<1> HIDE DEF g
<1>4. ASSUME NEW i \in 1..n PROVE Turn(g[i - 1], i) = g[i]
  <2> DEFINE P == SubSeq(B, 1, i - 1)
             s == g[i - 1]
  <2>1. i - 1 \in 0..n
    BY <1>1
  <2>2. Built(s, base, capacity, P)
    BY <1>3, <2>1
  <2>3. Len(P) = i - 1
    BY <1>1, PrefixGrows
  <2>4. B[i].first = EndOf(base, P)
    BY ChainedOneLess
  <2> HIDE DEF P
  <2>5. s.batches = P /\ s.next = EndOf(base, P)
    BY <2>2 DEF Built, SegmentWith, SegmentRecord
  <2>6. g[i] = Appended(s, interval, B[i])
    BY <1>2 DEF Rewrites
  <2>7. ~(Len(s.batches) < i - 1) /\ B[i].first = s.next
    BY <2>1, <2>3, <2>4, <2>5
  <2> QED
    BY <2>6, <2>7 DEF RecoverTurn
<1>5. g[0] = start
  BY <1>2 DEF Rewrites
<1> HIDE DEF Turn
<1>6. \E h : Is(h)
  <2> DEFINE h == [i \in 0..n |-> g[i]]
  <2>1. \A i \in 1..n : i - 1 \in 0..n /\ i \in 0..n /\ i # 0
    BY <1>1
  <2>2. \A i \in 1..n : h[i] = Turn(h[i - 1], i)
    BY <1>4, <2>1
  <2>3. \A i \in 0..n : i = 0 \/ i \in 1..n
    BY <1>1
  <2>4. \A i \in 0..n : h[i] = IF i = 0 THEN start ELSE Turn(h[i - 1], i)
    BY <1>5, <2>2, <2>3
  <2>5. Is(h)
    BY <2>4
  <2> HIDE DEF h, Is
  <2> QED
    BY <2>5
<1>7. Is(f)
  BY <1>6 DEF RecoveredAfter, Turn, RecoverTurn
<1> HIDE DEF f
<1>8. 0 \in T
  BY <1>1, <1>5, <1>7
<1>9. ASSUME NEW i \in 1..n, i - 1 \in T PROVE i \in T
  <2>1. i \in 0..n /\ i # 0
    BY <1>1
  <2>2. f[i] = Turn(f[i - 1], i)
    BY <1>7, <2>1
  <2>3. f[i - 1] = g[i - 1]
    BY <1>9
  <2> QED
    BY <1>4, <2>1, <2>2, <2>3
<1> HIDE DEF T
<1>10. \A i \in 0..n : i \in T
  BY <1>1, <1>8, <1>9, AllUpTo
<1>11. f[n] = g[n]
  BY <1>1, <1>10 DEF T
<1> QED
  BY <1>11 DEF f, g, n, Recovered, Rewritten

-----------------------------------------------------------------------------
(* What compaction leaves *)

\* The i-th batch left is what is left of the batch from[i].
IsLeft(kept, from, B) ==
    /\ kept = [i \in DOMAIN from |-> kept[i]]
    /\ \A i \in DOMAIN from : kept[i] \in LeftOf(B[from[i]])

\* What may be left comes from some of the batches, in their order.
LEMMA ThinnedComesFrom ==
    ASSUME NEW B, NEW kept \in Thinned(B)
    PROVE  \E m \in DOMAIN B : \E from \in [1..m -> DOMAIN B] :
                /\ \A i, j \in 1..m : i < j => from[i] < from[j]
                /\ IsLeft(kept, from, B)
<1>1. PICK from \in Survivors(B) :
            kept \in {k \in [DOMAIN from -> UNION {LeftOf(B[from[i]]) : i \in DOMAIN from}] :
                        \A i \in DOMAIN from : k[i] \in LeftOf(B[from[i]])}
  BY DEF Thinned
<1>2. IsLeft(kept, from, B)
  BY <1>1 DEF IsLeft
<1>3. /\ \E m \in DOMAIN B : from \in [1..m -> DOMAIN B]
      /\ \A i, j \in DOMAIN from : i < j => from[i] < from[j]
  BY DEF Survivors
<1>4. PICK m \in DOMAIN B : from \in [1..m -> DOMAIN B]
  BY <1>3
<1>5. \A i, j \in 1..m : i < j => from[i] < from[j]
  BY <1>3, <1>4
<1> QED
  BY <1>2, <1>4, <1>5

\* Less is left of a batch, within its offsets.
LEMMA LeftIsLess ==
    ASSUME NEW b \in BatchSet, NEW c \in LeftOf(b)
    PROVE  /\ c \in BatchSet /\ c.first <= c.last
           /\ b.first <= c.first /\ c.last <= b.last /\ c.size <= b.size
<1>1. b.first \in Nat /\ b.last \in Nat /\ b.size \in Nat
  BY DEF BatchSet
<1>2. /\ c \in [first : b.first..b.last, last : b.first..b.last, size : 1..b.size]
      /\ c.first <= c.last
  BY DEF LeftOf
<1>3. c.first \in b.first..b.last /\ c.last \in b.first..b.last /\ c.size \in 1..b.size
  BY <1>2
<1>4. c = [first |-> c.first, last |-> c.last, size |-> c.size]
  BY <1>2
<1>5. c.first \in Nat /\ c.last \in Nat /\ c.size \in Nat \ {0}
  BY <1>1, <1>3
<1>6. c \in BatchSet
  BY <1>4, <1>5 DEF BatchSet
<1> QED
  BY <1>1, <1>2, <1>3, <1>6

\* What is left fits where the batches did, and is something.
LEMMA ThinnedFits ==
    ASSUME NEW base \in Nat, NEW B, Fits(base, B), NEW kept \in Thinned(B), MaxUint32 \in Nat
    PROVE  Fits(base, kept) /\ kept # <<>>
<1>1. /\ B \in Seq(BatchSet) /\ Len(B) \in Nat /\ DOMAIN B = 1..Len(B)
      /\ \A n \in 1..Len(B) : B[n] \in BatchSet
      /\ \A n \in 1..Len(B) : B[n].first \in Nat /\ B[n].last \in Nat /\ B[n].size \in Nat
  <2>1. /\ B \in Seq(BatchSet) /\ Len(B) \in Nat /\ DOMAIN B = 1..Len(B)
        /\ \A n \in 1..Len(B) : B[n] \in BatchSet
    BY DEF Fits, Ordered
  <2> QED
    BY <2>1 DEF BatchSet
<1>2. PICK m \in 1..Len(B) : \E from \in [1..m -> 1..Len(B)] :
            /\ \A i, j \in 1..m : i < j => from[i] < from[j]
            /\ IsLeft(kept, from, B)
  BY <1>1, ThinnedComesFrom
<1>3. PICK from \in [1..m -> 1..Len(B)] :
            /\ \A i, j \in 1..m : i < j => from[i] < from[j]
            /\ IsLeft(kept, from, B)
  BY <1>2
<1>4. /\ m \in Nat \ {0} /\ kept = [i \in 1..m |-> kept[i]]
      /\ \A i \in 1..m : from[i] \in 1..Len(B) /\ kept[i] \in LeftOf(B[from[i]])
  BY <1>1, <1>3 DEF IsLeft
<1>5. \A i \in 1..m : /\ kept[i] \in BatchSet /\ kept[i].first <= kept[i].last
                      /\ B[from[i]].first <= kept[i].first
                      /\ kept[i].last <= B[from[i]].last
                      /\ kept[i].size <= B[from[i]].size
  BY <1>1, <1>4, LeftIsLess
<1>6. kept \in Seq(BatchSet) /\ Len(kept) = m /\ kept # <<>>
  <2>1. kept \in [1..m -> BatchSet]
    BY <1>4, <1>5
  <2> QED
    BY <1>4, <2>1
<1>7. \A i \in 1..m : kept[i].first \in Nat /\ kept[i].last \in Nat /\ kept[i].size \in Nat
  BY <1>5 DEF BatchSet
<1>8. Ordered(kept)
  <2>1. ASSUME NEW i \in 1..m, NEW j \in 1..m, i < j
        PROVE  kept[i].last < kept[j].first
    <3>1. from[i] \in 1..Len(B) /\ from[j] \in 1..Len(B) /\ from[i] < from[j]
      BY <1>3, <1>4, <2>1
    <3>2. B[from[i]].last < B[from[j]].first
      BY <3>1 DEF Fits, Ordered
    <3>3. kept[i].last <= B[from[i]].last /\ B[from[j]].first <= kept[j].first
      BY <1>5
    <3>4. B[from[i]].last \in Nat /\ B[from[j]].first \in Nat
      BY <1>1, <3>1
    <3>5. kept[i].last \in Nat /\ kept[j].first \in Nat
      BY <1>7
    <3> DEFINE a == kept[i].last
               b == B[from[i]].last
               c == B[from[j]].first
               d == kept[j].first
    <3>6. a \in Nat /\ b \in Nat /\ c \in Nat /\ d \in Nat /\ a <= b /\ b < c /\ c <= d
      BY <3>2, <3>3, <3>4, <3>5, Zenon
    <3> HIDE DEF a, b, c, d
    <3>7. a < d
      BY <3>6
    <3> QED
      BY <3>7 DEF a, d
  <2> QED
    BY <1>5, <1>6, <2>1 DEF Ordered
<1>9. ASSUME NEW i \in 1..m
      PROVE  base <= kept[i].first /\ kept[i].last - base <= MaxUint32
  <2>1. from[i] \in 1..Len(B)
    BY <1>4
  <2>2. base <= B[from[i]].first /\ B[from[i]].last - base <= MaxUint32
    BY <2>1 DEF Fits
  <2>3. B[from[i]].first \in Nat /\ B[from[i]].last \in Nat
    BY <1>1, <2>1
  <2>4. /\ kept[i].first \in Nat /\ kept[i].last \in Nat
        /\ B[from[i]].first <= kept[i].first /\ kept[i].last <= B[from[i]].last
    BY <1>5, <1>7
  <2> DEFINE a == B[from[i]].first
             b == B[from[i]].last
             c == kept[i].first
             d == kept[i].last
  <2>5. /\ a \in Nat /\ b \in Nat /\ c \in Nat /\ d \in Nat
        /\ base <= a /\ b - base <= MaxUint32 /\ a <= c /\ d <= b
    BY <2>2, <2>3, <2>4, Zenon
  <2> HIDE DEF a, b, c, d
  <2>6. base <= c /\ d - base <= MaxUint32
    BY <2>5
  <2> QED
    BY <2>6 DEF c, d
<1>10. SizeOf(kept) <= MaxUint32
  <2> DEFINE bytes == BytesAfter(B)
             less  == BytesAfter(kept)
             T     == {i \in 0..m : i = 0 \/ less[i] <= bytes[from[i]]}
  <2>1. /\ bytes \in [0..Len(B) -> Nat] /\ bytes[0] = 0
        /\ \A n \in 1..Len(B) : bytes[n] = bytes[n - 1] + B[n].size
        /\ \A k, n \in 0..Len(B) : k < n => bytes[k] < bytes[n]
    BY <1>1, BytesAre
  <2>2. /\ less \in [0..m -> Nat] /\ less[0] = 0
        /\ \A n \in 1..m : less[n] = less[n - 1] + kept[n].size
    BY <1>6, BytesAre
  <2> HIDE DEF bytes, less
  <2>3. ASSUME NEW i \in 1..m, i - 1 \in T PROVE i \in T
    <3>1. /\ from[i] \in 1..Len(B) /\ from[i] - 1 \in 0..Len(B) /\ from[i] \in 0..Len(B)
          /\ i - 1 \in 0..m /\ i \in 0..m
      BY <1>1, <1>4
    <3>2. less[i - 1] <= bytes[from[i] - 1]
      <4>1. CASE i = 1
        BY <2>1, <2>2, <3>1, <4>1
      <4>2. CASE i # 1
        <5>1. i - 1 \in 1..m /\ i - 1 < i
          BY <1>4, <4>2
        <5>2. from[i - 1] < from[i] /\ from[i - 1] \in 1..Len(B)
          BY <1>3, <1>4, <5>1
        <5>3. from[i - 1] = from[i] - 1 \/ from[i - 1] < from[i] - 1
          BY <3>1, <5>2
        <5>4. from[i - 1] \in 0..Len(B)
          BY <5>2
        <5>5. bytes[from[i - 1]] <= bytes[from[i] - 1]
          <6>1. CASE from[i - 1] = from[i] - 1
            <7>1. bytes[from[i] - 1] \in Nat
              BY <2>1, <3>1
            <7> QED
              BY <6>1, <7>1
          <6>2. CASE from[i - 1] < from[i] - 1
            <7>1. bytes[from[i - 1]] < bytes[from[i] - 1]
              BY <2>1, <3>1, <5>4, <6>2
            <7>2. bytes[from[i - 1]] \in Nat /\ bytes[from[i] - 1] \in Nat
              BY <2>1, <3>1, <5>4
            <7> QED
              BY <7>1, <7>2
          <6> QED
            BY <5>3, <6>1, <6>2
        <5>6. less[i - 1] <= bytes[from[i - 1]]
          BY <2>3, <4>2, <5>1
        <5>7. less[i - 1] \in Nat /\ bytes[from[i - 1]] \in Nat /\ bytes[from[i] - 1] \in Nat
          BY <2>1, <2>2, <3>1, <5>4
        <5> QED
          BY <5>5, <5>6, <5>7, SMTT(30)
      <4> QED
        BY <4>1, <4>2
    <3>3. less[i] = less[i - 1] + kept[i].size /\ bytes[from[i]] = bytes[from[i] - 1] + B[from[i]].size
      BY <2>1, <2>2, <3>1
    <3>4. kept[i].size <= B[from[i]].size
      BY <1>5
    <3>5. /\ less[i - 1] \in Nat /\ bytes[from[i] - 1] \in Nat
          /\ kept[i].size \in Nat /\ B[from[i]].size \in Nat
      BY <1>1, <1>7, <2>1, <2>2, <3>1
    <3>6. less[i] <= bytes[from[i]]
      <4> DEFINE a == less[i - 1]
                 b == bytes[from[i] - 1]
                 c == kept[i].size
                 d == B[from[i]].size
      <4>1. a \in Nat /\ b \in Nat /\ c \in Nat /\ d \in Nat /\ a <= b /\ c <= d
        BY <3>2, <3>4, <3>5
      <4>2. less[i] = a + c /\ bytes[from[i]] = b + d
        BY <3>3
      <4> HIDE DEF a, b, c, d
      <4>3. a + c <= b + d
        BY <4>1
      <4> QED
        BY <4>2, <4>3
    <3> QED
      BY <3>1, <3>6
  <2>4. 0 \in T
    BY <1>4
  <2> HIDE DEF T
  <2>5. m \in T
    <3>1. \A i \in 0..m : i \in T
      BY <1>4, <2>3, <2>4, AllUpTo
    <3> QED
      BY <1>4, <3>1
  <2>6. less[m] <= bytes[from[m]]
    BY <1>4, <2>5 DEF T
  <2>7. from[m] \in 0..Len(B)
    BY <1>4
  <2>8. bytes[from[m]] <= SizeOf(B) /\ SizeOf(B) \in Nat
    BY <1>1, <2>7, BytesWithin DEF bytes
  <2>9. SizeOf(B) <= MaxUint32
    BY DEF Fits
  <2>10. SizeOf(kept) = less[m] /\ less[m] \in Nat /\ bytes[from[m]] \in Nat
    BY <1>4, <1>6, <2>1, <2>2, <2>7 DEF SizeOf, less
  <2> QED
    BY <2>6, <2>8, <2>9, <2>10
<1> QED
  BY <1>6, <1>8, <1>9, <1>10 DEF Fits

-----------------------------------------------------------------------------
(* Opening a sealed segment *)

\* An index with the same entries in a file of any length.
SameEntries(t, index) ==
    /\ t = [file |-> t.file, count |-> t.count]
    /\ t.file \in Seq(EntrySet) /\ t.count = index.count /\ t.count \in 0..Len(t.file)
    /\ \A i \in 1..t.count : t.file[i] = index.file[i]
    /\ \A i \in (t.count + 1)..Len(t.file) : t.file[i] = Padding

\* It is as good as the other.
LEMMA SameIsAhead ==
    ASSUME NEW index, NEW t, SameEntries(t, index), NEW base, NEW B, NEW first
    PROVE  /\ IndexAhead(index, base, B, first) => IndexAhead(t, base, B, first)
           /\ IndexOf(index, base, B) => IndexOf(t, base, B)
<1>1. ASSUME IndexAhead(index, base, B, first) PROVE IndexAhead(t, base, B, first)
  <2>1. ASSUME NEW i \in 1..t.count
        PROVE  \/ \E n \in 2..Len(B) : t.file[i] = Entry(B[n].first - base, StartOf(B, n))
               \/ B # <<>> /\ i = t.count /\ t.file[i] = Entry(first - base, SizeOf(B))
    <3>1. t.file[i] = index.file[i] /\ t.count = index.count /\ i \in 1..index.count
      BY DEF SameEntries
    <3>2. \/ \E n \in 2..Len(B) : index.file[i] = Entry(B[n].first - base, StartOf(B, n))
          \/ B # <<>> /\ i = index.count /\ index.file[i] = Entry(first - base, SizeOf(B))
      BY <1>1, <3>1 DEF IndexAhead
    <3> QED
      BY <3>1, <3>2
  <2> QED
    BY <2>1 DEF SameEntries, IndexAhead
<1>2. ASSUME IndexOf(index, base, B) PROVE IndexOf(t, base, B)
  <2>1. ASSUME NEW i \in 1..t.count
        PROVE  \E n \in 2..Len(B) : t.file[i] = Entry(B[n].first - base, StartOf(B, n))
    <3>1. t.file[i] = index.file[i] /\ i \in 1..index.count
      BY DEF SameEntries
    <3>2. \E n \in 2..Len(B) : index.file[i] = Entry(B[n].first - base, StartOf(B, n))
      BY <1>2, <3>1 DEF IndexOf
    <3> QED
      BY <3>1, <3>2
  <2> QED
    BY <2>1 DEF SameEntries, IndexOf
<1> QED
  BY <1>1, <1>2

\* An index without the entry of a batch that was not written is ahead of nothing.
LEMMA OfIsAhead ==
    ASSUME NEW index, NEW base, NEW B, NEW first, IndexOf(index, base, B)
    PROVE  IndexAhead(index, base, B, first)
BY DEF IndexOf, IndexAhead

\* No entry is at the start of the file.
LEMMA EntriesAreNotPadding ==
    ASSUME NEW index, NEW base, NEW B, Fits(base, B), NEW first, IndexAhead(index, base, B, first),
           NEW i \in 1..index.count
    PROVE  index.file[i].position # 0
<1>1. B \in Seq(BatchSet) /\ Len(B) \in Nat
  BY DEF Fits, Ordered
<1>2. CASE \E n \in 2..Len(B) : index.file[i] = Entry(B[n].first - base, StartOf(B, n))
  <2>1. PICK n \in 2..Len(B) : index.file[i] = Entry(B[n].first - base, StartOf(B, n))
    BY <1>2
  <2>2. 0 \in 0..Len(B) /\ n - 1 \in 0..Len(B) /\ 0 < n - 1
    BY <1>1
  <2>3. BytesAfter(B)[0] = 0 /\ BytesAfter(B)[0] < BytesAfter(B)[n - 1]
    BY <1>1, <2>2, BytesAre
  <2>4. index.file[i].position = BytesAfter(B)[n - 1]
    BY <2>1 DEF Entry, StartOf
  <2> QED
    BY <2>3, <2>4
<1>3. CASE B # <<>> /\ index.file[i] = Entry(first - base, SizeOf(B))
  BY <1>1, <1>3, SizeOfSome DEF Entry
<1> QED
  BY <1>2, <1>3 DEF IndexAhead

\* What openSealed() counts is what was in use, in a file that was trimmed or not.
LEMMA OpenedSame ==
    ASSUME NEW index, NEW base, NEW B, Fits(base, B), NEW first, IndexAhead(index, base, B, first),
           NEW file, file = index.file \/ file = TrimmedFile(index)
    PROVE  SameEntries(OpenIndex(file), index)
<1>1. /\ index.file \in Seq(EntrySet) /\ index.count \in 0..Len(index.file)
      /\ Len(index.file) \in Nat /\ index.count \in Nat /\ index.count \in Int
      /\ \A i \in (index.count + 1)..Len(index.file) : index.file[i] = Padding
      /\ \A i \in 1..index.count : index.file[i].position # 0
  <2>1. \A i \in 1..index.count : index.file[i].position # 0
    BY EntriesAreNotPadding, Zenon
  <2>2. /\ index.file \in Seq(EntrySet) /\ index.count \in 0..Len(index.file)
        /\ \A i \in (index.count + 1)..Len(index.file) : index.file[i] = Padding
    BY DEF IndexAhead
  <2> QED
    BY <2>1, <2>2
<1>2. /\ file \in Seq(EntrySet) /\ index.count \in 0..Len(file)
      /\ \A i \in 1..index.count : file[i] = index.file[i]
      /\ \A i \in (index.count + 1)..Len(file) : file[i] = Padding
  <2>1. CASE file = index.file
    BY <1>1, <2>1
  <2>2. CASE file = TrimmedFile(index)
    <3>1. \A i \in 1..index.count : index.file[i] \in EntrySet
      BY <1>1
    <3>2. /\ TrimmedFile(index) \in Seq(EntrySet)
          /\ Len(TrimmedFile(index)) = IF 1 <= index.count THEN index.count - 1 + 1 ELSE 0
          /\ \A i \in 1..(index.count - 1 + 1) : TrimmedFile(index)[i] = index.file[1 + i - 1]
      BY <1>1, <3>1, SubSeqProperties DEF TrimmedFile
    <3>3. Len(file) = index.count
      BY <1>1, <2>2, <3>2
    <3>4. \A i \in 1..index.count : file[i] = index.file[i]
      BY <1>1, <2>2, <3>2
    <3> QED
      BY <1>1, <2>2, <3>2, <3>3, <3>4
  <2> QED
    BY <2>1, <2>2
<1>3. InUse(file, index.count)
  <2>1. Padding.position = 0
    BY DEF Padding, Entry
  <2> QED
    BY <1>1, <1>2, <2>1 DEF InUse
<1>4. CountEntries(file) = index.count
  BY <1>3, CountEntriesFinds
<1>5. OpenIndex(file) = [file |-> file, count |-> index.count]
  BY <1>4 DEF OpenIndex
<1> QED
  BY <1>1, <1>2, <1>5 DEF SameEntries

\* The index ends with an entry for what begins after the last batch.
Ahead(index, B) == index.count > 0 /\ index.file[index.count].position = SizeOf(B)

\* A segment s that was opened with these batches and the entries of this index.
OpenedWith(s, base, B, index, thrown) ==
    /\ s = SegmentRecord(base, B, SizeOf(B), s.next, s.index, s.since, thrown)
    /\ s.since = 0
    /\ SameEntries(s.index, index)
    /\ ~Ahead(index, B) => s.next = EndOf(base, B)

\* A sealed segment is opened with its batches and its entries, and when none of
\* them is ahead, with the offset after its last batch.
LEMMA OpenedSegment ==
    ASSUME NEW base \in Nat, NEW B, Fits(base, B), B # <<>>, NEW index, NEW first,
           IndexAhead(index, base, B, first), MaxUint32 \in Nat,
           NEW file \in {index.file, TrimmedFile(index)}, NEW thrown,
           NEW s, s = OpenSealed(base, B, file, thrown)
    PROVE  OpenedWith(s, base, B, index, thrown)
<1> DEFINE t == OpenIndex(file)
<1>1. s = SegmentRecord(base, B, SizeOf(B), DeriveNext(base, B, t), t, 0, thrown)
  BY DEF OpenSealed, SegmentRecord
<1>2. SameEntries(t, index)
  BY OpenedSame
<1> HIDE DEF t
<1>3. s.next = DeriveNext(base, B, t) /\ s.index = t /\ s.since = 0
  BY <1>1 DEF SegmentRecord
<1>4. ASSUME ~Ahead(index, B) PROVE DeriveNext(base, B, t) = EndOf(base, B)
  <2>1. B \in Seq(BatchSet) /\ Len(B) \in Nat
    BY DEF Fits, Ordered
  <2>2. ASSUME NEW i \in 1..t.count
        PROVE  \E n \in 1..Len(B) : t.file[i].position = StartOf(B, n)
    <3>1. t.file[i] = index.file[i] /\ i \in 1..index.count
      BY <1>2 DEF SameEntries
    <3>2. \/ \E n \in 2..Len(B) : index.file[i] = Entry(B[n].first - base, StartOf(B, n))
          \/ i = index.count /\ index.file[i] = Entry(first - base, SizeOf(B))
      BY <3>1 DEF IndexAhead
    <3>3. CASE \E n \in 2..Len(B) : index.file[i] = Entry(B[n].first - base, StartOf(B, n))
      <4>1. PICK n \in 2..Len(B) : index.file[i] = Entry(B[n].first - base, StartOf(B, n))
        BY <3>3
      <4>2. n \in 1..Len(B) /\ t.file[i].position = StartOf(B, n)
        BY <2>1, <3>1, <4>1 DEF Entry
      <4> QED
        BY <4>2
    <3>4. CASE i = index.count /\ index.file[i] = Entry(first - base, SizeOf(B))
      <4>1. index.count > 0 /\ index.file[index.count].position = SizeOf(B)
        BY <3>1, <3>4 DEF Entry, IndexAhead
      <4> QED
        BY <1>4, <4>1 DEF Ahead
    <3> QED
      BY <3>2, <3>3, <3>4
  <2>3. t.file \in Seq(EntrySet) /\ t.count \in 0..Len(t.file) /\ MaxUint32 \in Int
    BY <1>2 DEF SameEntries
  <2> QED
    BY <2>1, <2>2, <2>3, DeriveNextFinds
<1>5. s = SegmentRecord(base, B, SizeOf(B), s.next, s.index, s.since, thrown)
  BY <1>1, <1>3
<1>6. SameEntries(s.index, index) /\ (~Ahead(index, B) => s.next = EndOf(base, B))
  BY <1>2, <1>3, <1>4
<1> QED
  BY <1>3, <1>5, <1>6 DEF OpenedWith

-----------------------------------------------------------------------------
(* The inductive invariant *)

\* Every entry of the index is the start of a batch, but the last may be that of
\* the batch that comes next; nothing was thrown.
SegOK(s) ==
    /\ Fits(Base, s.batches)
    /\ s = SegmentRecord(Base, s.batches, SizeOf(s.batches), s.next, s.index, s.since, FALSE)
    /\ s.since \in Nat
    /\ IndexAhead(s.index, Base, s.batches, EndOf(Base, s.batches))

\* Whatever begins at an offset.
Probe(offset) == [first |-> offset, last |-> offset, size |-> 1]

\* A segment as appending its batches leaves it, but an append that failed may
\* have added to the index.
Rebuilt(s) == Rewritten(Base, Len(s.index.file), IndexInterval, s.batches)
BuiltOrAhead(s) ==
    \/ s = Rebuilt(s)
    \/ /\ Ahead(s.index, s.batches)
       /\ s = AddIndexEntry(Rebuilt(s), IndexInterval, Probe(EndOf(Base, s.batches)))

\* What append() may write next.
ComesNext(b, B) ==
    /\ b \in BatchSet /\ b.first <= b.last /\ b.first = EndOf(Base, B)
    /\ b.last - b.first < b.size /\ SizeOf(B) + b.size <= MaxUint32

\* The segment s of a log that ends at e, between two calls of append(), and after
\* the first and after the second step of one that appends b.
IdleOK(s, e) ==
    /\ e = EndOf(Base, s.batches) /\ s.next = e
    /\ BuiltOrAhead(s)
IndexedOK(s, e, b) ==
    /\ e = EndOf(Base, s.batches) /\ s.next = e
    /\ BuiltOrAhead(s)
    /\ ComesNext(b, s.batches)
    /\ s = AddIndexEntry(Rebuilt(s), IndexInterval, b)
WrittenOK(s, e, b) ==
    /\ s.batches # <<>> /\ b = s.batches[Len(s.batches)]
    /\ e = b.first
    /\ PublishBatch(s, b) = Rebuilt(s)

ActiveOK(s, e, at, b) ==
    /\ Chained(Base, s.batches)
    /\ \/ at = "idle" /\ IdleOK(s, e)
       \/ at = "indexed" /\ IndexedOK(s, e, b)
       \/ at = "written" /\ WrittenOK(s, e, b)

\* A sealed segment, where the next begins at e.
SealedOK(s, e) ==
    /\ s.batches # <<>> /\ e = EndOf(Base, s.batches)
    /\ ~Ahead(s.index, s.batches) => s.next = e

\* One that was compacted.
CleanedOK(s) ==
    /\ s.batches # <<>> /\ s.next = EndOf(Base, s.batches)
    /\ IndexOf(s.index, Base, s.batches)

\* What a reader knows: before it has taken the size that its offset was there,
\* then that the size covers it.
ReaderOK(read, B, e) ==
    \/ read = Idle
    \/ /\ read.at \in {"started", "bounded", "done"}
       /\ read.offset \in Base..(e - 1) /\ read.maxBytes \in Nat
       /\ read.at = "bounded" => read.limit \in Nat /\ Covers(B, read.limit, read.offset)
       /\ read.at = "done" => ServedFrom(B, read)

\* What every step preserves.
SegmentInv ==
    /\ SegOK(seg) /\ end \in Nat
    /\ \/ phase = "active" /\ ActiveOK(seg, end, step, incoming)
       \/ phase = "sealed" /\ step = "idle" /\ SealedOK(seg, end)
       \/ phase = "cleaned" /\ step = "idle" /\ CleanedOK(seg)
       \/ phase = "damaged" /\ step = "idle" /\ Unread
    /\ readers = [r \in Readers |-> readers[r]]
    /\ \A r \in Readers : ReaderOK(readers[r], seg.batches, end)

-----------------------------------------------------------------------------
(* The steps of append() *)

\* What is built of batches that fit is as it should be.
LEMMA BuiltIsOK ==
    ASSUME NEW B, Fits(Base, B), NEW capacity \in Nat, NEW s, Built(s, Base, capacity, B)
    PROVE  /\ SegOK(s) /\ s.batches = B /\ s.next = EndOf(Base, B)
           /\ Len(s.index.file) = capacity
           /\ IndexOf(s.index, Base, B)
<1>1. /\ s = SegmentWith(Base, B, EndOf(Base, B), s.index, s.since)
      /\ s.since \in Nat /\ IndexOf(s.index, Base, B) /\ Len(s.index.file) = capacity
  BY DEF Built
<1>2. s.batches = B /\ s.next = EndOf(Base, B)
  BY <1>1 DEF SegmentWith, SegmentRecord
<1>3. s = SegmentRecord(Base, s.batches, SizeOf(s.batches), s.next, s.index, s.since, FALSE)
  BY <1>1, <1>2, Zenon DEF SegmentWith
<1>4. IndexAhead(s.index, Base, s.batches, EndOf(Base, s.batches))
  BY <1>1, <1>2, OfIsAhead
<1> QED
  BY <1>1, <1>2, <1>3, <1>4 DEF SegOK

\* What a segment rebuilt of its own batches is.
LEMMA RebuiltIsBuilt ==
    ASSUME NEW s, SegOK(s)
    PROVE  /\ Len(s.index.file) \in Nat
           /\ Built(Rebuilt(s), Base, Len(s.index.file), s.batches)
<1>1. Base \in Nat /\ MaxUint32 \in Nat /\ IndexInterval \in Nat
  BY SegmentAssumption
<1>2. Len(s.index.file) \in Nat /\ Fits(Base, s.batches)
  <2>1. s.index.file \in Seq(EntrySet) /\ Fits(Base, s.batches)
    BY DEF SegOK, IndexAhead
  <2> QED
    BY <2>1
<1>3. Built(Rewritten(Base, Len(s.index.file), IndexInterval, s.batches), Base,
            Len(s.index.file), s.batches)
  BY <1>1, <1>2, RewrittenIsBuilt
<1> QED
  BY <1>2, <1>3 DEF Rebuilt

\* Rebuilding looks at the batches and at the room in the index only.
LEMMA RebuiltOfSame ==
    ASSUME NEW s, NEW t, t.batches = s.batches, Len(t.index.file) = Len(s.index.file)
    PROVE  Rebuilt(t) = Rebuilt(s)
BY DEF Rebuilt

\* maybeAddIndexEntry() looks at nothing but where the batch begins.
LEMMA SameFirst ==
    ASSUME NEW s, NEW interval, NEW b, NEW c, b.first = c.first
    PROVE  AddIndexEntry(s, interval, b) = AddIndexEntry(s, interval, c)
BY DEF AddIndexEntry

\* A log without gaps ends within 32 bits of its base, and not before it.
LEMMA EndIsNear ==
    ASSUME NEW B, Chained(Base, B)
    PROVE  /\ EndOf(Base, B) \in Nat /\ Base <= EndOf(Base, B)
           /\ \A n \in 1..Len(B) : B[n].last < EndOf(Base, B)
           /\ B # <<>> => Len(B) \in 1..Len(B) /\ EndOf(Base, B) = B[Len(B)].last + 1
<1>1. /\ Base \in Nat /\ B \in Seq(BatchSet) /\ Len(B) \in Nat
      /\ \A n \in 1..Len(B) : B[n] \in BatchSet
  BY SegmentAssumption DEF Chained, Fits, Ordered
<1>2. CASE B = <<>>
  BY <1>1, <1>2 DEF EndOf
<1>3. CASE B # <<>>
  <2>1. Len(B) \in 1..Len(B)
    BY <1>1, <1>3
  <2>2. B[Len(B)].last \in Nat /\ B[Len(B)].first \in Nat
    BY <1>1, <2>1 DEF BatchSet
  <2>3. Base <= B[Len(B)].first /\ B[Len(B)].first <= B[Len(B)].last
    BY <2>1 DEF Chained, Fits, Ordered
  <2>4. EndOf(Base, B) = B[Len(B)].last + 1
    BY <1>3 DEF EndOf
  <2>5. ASSUME NEW n \in 1..Len(B) PROVE B[n].last < EndOf(Base, B)
    <3>1. CASE n = Len(B)
      BY <2>2, <2>4, <3>1
    <3>2. CASE n # Len(B)
      <4>1. n < Len(B)
        BY <1>1, <3>2
      <4>2. B[n].last < B[Len(B)].first
        BY <2>1, <4>1 DEF Chained, Fits, Ordered
      <4>3. B[n].last \in Nat
        BY <1>1 DEF BatchSet
      <4> QED
        BY <2>2, <2>3, <2>4, <4>2, <4>3
    <3> QED
      BY <3>1, <3>2
  <2> QED
    BY <1>1, <2>1, <2>2, <2>3, <2>4, <2>5
<1> QED
  BY <1>2, <1>3

\* What comes next follows, and fits with the others.
LEMMA NextFollows ==
    ASSUME NEW B, Chained(Base, B), NEW b, ComesNext(b, B)
    PROVE  Follows(b, Base, B) /\ Chained(Base, Append(B, b))
<1> DEFINE C == Append(B, b)
           e == EndOf(Base, B)
<1>1. /\ Base \in Nat /\ B \in Seq(BatchSet) /\ Len(B) \in Nat /\ MaxUint32 \in Nat
      /\ b \in BatchSet
  BY SegmentAssumption DEF Chained, Fits, Ordered, ComesNext
<1>2. /\ e \in Nat /\ Base <= e
      /\ \A n \in 1..Len(B) : B[n].last < e
      /\ B # <<>> => e = B[Len(B)].last + 1
  BY EndIsNear
<1>3. /\ b.first = e /\ b.first <= b.last /\ b.last - b.first < b.size
      /\ SizeOf(B) + b.size <= MaxUint32 /\ e - Base <= SizeOf(B)
  BY DEF ComesNext, Chained
<1>4. b.first \in Nat /\ b.last \in Nat /\ b.size \in Nat /\ SizeOf(B) \in Nat
  BY <1>1, SizeOfSome DEF BatchSet
<1> DEFINE x == b.first
           y == b.last
           z == b.size
           w == SizeOf(B)
<1>5. /\ x = e /\ x <= y /\ y - x < z /\ w + z <= MaxUint32 /\ e - Base <= w
      /\ x \in Nat /\ y \in Nat /\ z \in Nat /\ w \in Nat
  BY <1>3, <1>4
<1> HIDE DEF e, x, y, z, w
<1>6. Base <= x /\ y - Base <= MaxUint32 /\ y + 1 - Base <= w + z
  BY <1>1, <1>2, <1>5
<1>7. Follows(b, Base, B)
  BY <1>1, <1>2, <1>5, <1>6 DEF Follows, x, y
<1>8. /\ C \in Seq(BatchSet) /\ Len(C) = Len(B) + 1
      /\ \A i \in 1..Len(B) : C[i] = B[i]
      /\ C[Len(B) + 1] = b
      /\ SizeOf(C) = w + z
  BY <1>1, BytesOfAppend DEF w, z
<1> HIDE DEF C
<1>9. \A n \in 1..Len(C) : n \in 1..Len(B) \/ n = Len(B) + 1
  BY <1>1, <1>8
<1>10. Ordered(C)
  <2>1. \A n \in 1..Len(C) : C[n].first <= C[n].last
    BY <1>5, <1>8, <1>9 DEF Chained, Fits, Ordered, x, y
  <2>2. ASSUME NEW m \in 1..Len(C), NEW n \in 1..Len(C), m < n
        PROVE  C[m].last < C[n].first
    <3>1. m \in 1..Len(B) /\ C[m] = B[m]
      BY <1>1, <1>8, <2>2
    <3>2. CASE n \in 1..Len(B)
      <4>1. B[m].last < B[n].first /\ C[n] = B[n]
        BY <1>8, <2>2, <3>1, <3>2 DEF Chained, Fits, Ordered
      <4> QED
        BY <3>1, <4>1
    <3>3. CASE n = Len(B) + 1
      BY <1>2, <1>5, <1>8, <3>1, <3>3 DEF x
    <3> QED
      BY <1>9, <3>2, <3>3
  <2> QED
    BY <1>8, <2>1, <2>2 DEF Ordered
<1>11. \A n \in 1..Len(C) : Base <= C[n].first /\ C[n].last - Base <= MaxUint32
  BY <1>6, <1>8, <1>9 DEF Chained, Fits, x, y
<1>12. SizeOf(C) <= MaxUint32
  BY <1>5, <1>8
<1>13. Fits(Base, C)
  BY <1>10, <1>11, <1>12 DEF Fits
<1>14. ASSUME NEW n \in 1..Len(C)
       PROVE  C[n].first = IF n = 1 THEN Base ELSE C[n - 1].last + 1
  <2>1. CASE n \in 1..Len(B)
    <3>1. B[n].first = IF n = 1 THEN Base ELSE B[n - 1].last + 1
      BY <2>1 DEF Chained
    <3>2. n # 1 => n - 1 \in 1..Len(B)
      BY <1>1, <2>1
    <3> QED
      BY <1>8, <2>1, <3>1, <3>2
  <2>2. CASE n = Len(B) + 1 /\ B = <<>>
    <3>1. n = 1 /\ e = Base
      BY <1>1, <2>2 DEF EndOf, e
    <3> QED
      BY <1>5, <1>8, <2>2, <3>1 DEF x
  <2>3. CASE n = Len(B) + 1 /\ B # <<>>
    <3>1. n # 1 /\ n - 1 = Len(B) /\ Len(B) \in 1..Len(B)
      BY <1>1, <2>3
    <3>2. C[n].first = x /\ C[n - 1] = B[Len(B)]
      BY <1>8, <2>3, <3>1 DEF x
    <3>3. x = B[Len(B)].last + 1
      BY <1>2, <1>5, <2>3
    <3> QED
      BY <3>1, <3>2, <3>3
  <2> QED
    BY <1>9, <2>1, <2>2, <2>3
<1>15. EndOf(Base, C) - Base <= SizeOf(C)
  <2>1. C # <<>>
    BY <1>1, <1>8
  <2>2. EndOf(Base, C) = y + 1
    BY <1>8, <2>1 DEF EndOf, y
  <2> QED
    BY <1>1, <1>5, <1>6, <1>8, <2>2
<1>16. Chained(Base, C)
  BY <1>13, <1>14, <1>15 DEF Chained
<1> QED
  BY <1>7, <1>16 DEF C

\* The first step of append(), at a time when the segment need not be rolled: the
\* index gets its entry, or had it from an append that failed.
LEMMA BeginAdds ==
    ASSUME NEW s, SegOK(s), Chained(Base, s.batches), BuiltOrAhead(s),
           s.next = EndOf(Base, s.batches),
           s.batches = <<>> \/ s.index.count < Len(s.index.file),
           NEW b, ComesNext(b, s.batches), NEW t, t = AddIndexEntry(s, IndexInterval, b)
    PROVE  /\ SegOK(t) /\ t.batches = s.batches /\ t.size = s.size
           /\ IndexedOK(t, EndOf(Base, s.batches), b)
<1> DEFINE B   == s.batches
           cap == Len(s.index.file)
           r   == Rebuilt(s)
           e   == EndOf(Base, B)
<1>1. /\ Base \in Nat /\ MaxUint32 \in Nat /\ IndexInterval \in Nat \ {0} /\ IndexInterval \in Nat
      /\ Fits(Base, B) /\ cap \in Nat /\ Built(r, Base, cap, B)
  BY SegmentAssumption, RebuiltIsBuilt DEF SegOK
<1>2. Follows(b, Base, B)
  BY NextFollows
<1>3. b.first = e /\ Probe(e).first = e
  BY DEF ComesNext, Probe
<1>4. AddIndexEntry(r, IndexInterval, b) = AddIndexEntry(r, IndexInterval, Probe(e))
  BY <1>3, SameFirst
<1>5. s.size = SizeOf(B)
  BY DEF SegOK, SegmentRecord
<1>6. CASE s = r
  <2>1. t = AddIndexEntry(r, IndexInterval, b)
    BY <1>6
  <2>2. Added(t, r, Base, B, cap, b.first)
    BY <1>1, <1>2, <2>1, AddIndexEntryDoes
  <2> HIDE DEF r, cap, e
  <2>3. /\ t = SegmentWith(Base, B, e, t.index, t.since)
        /\ t.since \in Nat /\ IndexAhead(t.index, Base, B, e)
        /\ Len(t.index.file) = cap
    BY <1>3, <2>2 DEF Added, e
  <2>4. t.batches = B /\ t.next = e /\ t.size = SizeOf(B)
    BY <2>3 DEF SegmentWith, SegmentRecord
  <2>5. t = SegmentRecord(Base, t.batches, SizeOf(t.batches), t.next, t.index, t.since, FALSE)
    BY <2>3, <2>4, Zenon DEF SegmentWith
  <2>6. SegOK(t)
    BY <1>1, <2>3, <2>4, <2>5 DEF SegOK, e
  <2>7. Rebuilt(t) = r
    BY <2>3, <2>4, RebuiltOfSame DEF r, cap
  <2>8. BuiltOrAhead(t)
    <3>1. CASE t = r
      BY <2>7, <3>1 DEF BuiltOrAhead
    <3>2. CASE t # r
      <4>1. r.index.count # cap
        <5>1. B # <<>>
          BY <2>2, <3>2 DEF Added
        <5>2. s.index.count < Len(s.index.file)
          BY <5>1
        <5>3. cap \in Nat /\ cap = Len(s.index.file)
          BY <1>1 DEF cap
        <5> QED
          BY <1>6, <5>2, <5>3
      <4>2. Ahead(t.index, B)
        BY <2>2, <3>2, <4>1 DEF Added, Ahead
      <4> QED
        BY <1>4, <2>1, <2>4, <2>7, <4>2 DEF BuiltOrAhead, e
    <3> QED
      BY <3>1, <3>2
  <2>9. IndexedOK(t, e, b)
    BY <2>1, <2>4, <2>7, <2>8 DEF IndexedOK, e
  <2> QED
    BY <1>5, <2>4, <2>6, <2>9 DEF e
<1>7. CASE s # r
  <2>1. s = AddIndexEntry(r, IndexInterval, Probe(e))
    BY <1>7 DEF BuiltOrAhead
  <2>2. AddIndexEntry(AddIndexEntry(r, IndexInterval, Probe(e)), IndexInterval, b)
            = AddIndexEntry(r, IndexInterval, Probe(e))
    BY <1>1, <1>3, AddedOnce
  <2>3. t = s
    BY <2>1, <2>2
  <2>4. s = AddIndexEntry(r, IndexInterval, b)
    BY <1>4, <2>1
  <2>5. IndexedOK(s, e, b)
    BY <2>4 DEF IndexedOK
  <2> QED
    BY <2>3, <2>5
<1> QED
  BY <1>6, <1>7

\* When the write fails, the segment is as an append that has not begun may find it.
LEMMA FailingLeavesIdle ==
    ASSUME NEW s, NEW e, NEW b, IndexedOK(s, e, b)
    PROVE  IdleOK(s, e)
BY DEF IndexedOK, IdleOK

\* The second step of append() makes the entry one like the others.
LEMMA WriteAdds ==
    ASSUME NEW s, SegOK(s), Chained(Base, s.batches), NEW e, NEW b, IndexedOK(s, e, b),
           NEW t, t = WriteBatch(s, b)
    PROVE  /\ SegOK(t) /\ t.batches = Append(s.batches, b)
           /\ Chained(Base, t.batches)
           /\ WrittenOK(t, e, b)
<1> DEFINE B   == s.batches
           C   == Append(B, b)
           cap == Len(s.index.file)
           r   == Rebuilt(s)
           n   == SizeOf(B)
           m   == SizeOf(C)
           no  == FALSE
           since == s.since + b.size
<1>1. /\ Base \in Nat /\ MaxUint32 \in Nat /\ IndexInterval \in Nat
      /\ B \in Seq(BatchSet) /\ Len(B) \in Nat /\ b \in BatchSet
  BY SegmentAssumption DEF Chained, Fits, Ordered, IndexedOK, ComesNext
<1>2. Chained(Base, C)
  BY NextFollows DEF IndexedOK
<1>3. /\ C \in Seq(BatchSet) /\ Len(C) = Len(B) + 1 /\ C[Len(B) + 1] = b /\ m = n + b.size
  BY <1>1, BytesOfAppend
<1>4. s.size = n /\ s.since \in Nat
  <2>1. s = SegmentRecord(Base, B, n, s.next, s.index, s.since, no)
    BY DEF SegOK
  <2>2. SegmentRecord(Base, B, n, s.next, s.index, s.since, no).size = n
    BY DEF SegmentRecord
  <2> HIDE DEF n
  <2>3. s.size = n
    BY <2>1, <2>2, Zenon
  <2> QED
    BY <2>3 DEF SegOK
<1>5. t = WithBatches(s, C, m, since)
  BY <1>3, <1>4 DEF WriteBatch, WithBatches
<1>6. s = SegmentRecord(Base, B, n, s.next, s.index, s.since, no)
  BY DEF SegOK
<1>7. Rewritten(Base, cap, IndexInterval, C)
            = Appended(Rewritten(Base, cap, IndexInterval, B), IndexInterval, b)
  BY ONLY <1>1, RewrittenOneMore, SMTT(30)
<1>8. Appended(r, IndexInterval, b) = PublishBatch(t, b)
  BY DEF Appended, IndexedOK
<1>9. b.size \in Nat /\ since \in Nat
  BY <1>1, <1>4 DEF BatchSet
<1>10. IndexOf(s.index, Base, C)
  <2>1. IndexAhead(s.index, Base, B, b.first)
    BY DEF SegOK, IndexedOK, ComesNext
  <2> QED
    BY <1>1, <2>1, EntryIsCaughtUp
<1> HIDE DEF C, m, n, no, since
<1>11. t = SegmentRecord(Base, C, m, s.next, s.index, since, no)
  BY <1>5, <1>6, BatchesChange
<1>12. t.batches = C /\ t.index = s.index /\ t.next = s.next /\ t.since = since
  BY <1>11 DEF SegmentRecord
<1>13. t = SegmentRecord(Base, t.batches, SizeOf(t.batches), t.next, t.index, t.since, FALSE)
  BY <1>11, <1>12, Zenon DEF m, no
<1>14. IndexAhead(t.index, Base, t.batches, EndOf(Base, t.batches))
  BY <1>10, <1>12, OfIsAhead
<1>15. SegOK(t)
  BY <1>2, <1>9, <1>12, <1>13, <1>14 DEF SegOK, Chained
<1>16. Rebuilt(t) = PublishBatch(t, b)
  BY <1>7, <1>8, <1>12 DEF Rebuilt
<1>17. t.batches # <<>> /\ b = t.batches[Len(t.batches)]
  BY <1>1, <1>3, <1>12
<1>18. e = b.first
  BY DEF IndexedOK, ComesNext
<1>19. WrittenOK(t, e, b)
  BY <1>16, <1>17, <1>18 DEF WrittenOK
<1> QED
  BY <1>2, <1>12, <1>15, <1>19 DEF C

\* The third ends it where an uninterrupted one would have.
LEMMA PublishEnds ==
    ASSUME NEW s, SegOK(s), Chained(Base, s.batches), NEW e, NEW b, WrittenOK(s, e, b),
           NEW t, t = PublishBatch(s, b)
    PROVE  SegOK(t) /\ t.batches = s.batches /\ IdleOK(t, t.next) /\ t.next = b.last + 1
<1>1. t = Rebuilt(s)
  BY DEF WrittenOK
<1>2. Len(s.index.file) \in Nat /\ Built(t, Base, Len(s.index.file), s.batches)
  BY <1>1, RebuiltIsBuilt
<1>3. /\ SegOK(t) /\ t.batches = s.batches /\ t.next = EndOf(Base, s.batches)
      /\ Len(t.index.file) = Len(s.index.file)
  <2> DEFINE B   == s.batches
             cap == Len(s.index.file)
  <2>1. Fits(Base, B) /\ cap \in Nat /\ Built(t, Base, cap, B)
    BY <1>2 DEF SegOK
  <2> HIDE DEF B, cap
  <2>2. SegOK(t) /\ t.batches = B /\ t.next = EndOf(Base, B) /\ Len(t.index.file) = cap
    BY <2>1, BuiltIsOK
  <2> QED
    BY <2>2 DEF B, cap
<1>4. Rebuilt(t) = t
  BY <1>1, <1>3, RebuiltOfSame
<1>5. IdleOK(t, t.next)
  BY <1>3, <1>4 DEF IdleOK, BuiltOrAhead
<1>6. t.next = b.last + 1
  BY <1>3 DEF WrittenOK, EndOf
<1> QED
  BY <1>3, <1>5, <1>6

-----------------------------------------------------------------------------
(* Restarts and compaction *)

\* recover() makes a segment that nothing has happened to.
LEMMA RecoverBuilds ==
    ASSUME NEW B, Chained(Base, B), NEW capacity \in Nat,
           NEW t, t = Recovered(Base, capacity, IndexInterval, B)
    PROVE  SegOK(t) /\ t.batches = B /\ IdleOK(t, t.next)
<1>1. /\ Base \in Nat /\ MaxUint32 \in Nat /\ IndexInterval \in Nat /\ Fits(Base, B)
  BY SegmentAssumption DEF Chained
<1>2. t = Rewritten(Base, capacity, IndexInterval, B)
  BY <1>1, RecoveredIsRewritten
<1>3. Built(t, Base, capacity, B)
  BY <1>1, <1>2, RewrittenIsBuilt
<1>4. /\ SegOK(t) /\ t.batches = B /\ t.next = EndOf(Base, B)
      /\ Len(t.index.file) = capacity
  BY <1>1, <1>3, BuiltIsOK, Zenon
<1>5. Rebuilt(t) = t
  BY <1>2, <1>4 DEF Rebuilt
<1> QED
  BY <1>4, <1>5 DEF IdleOK, BuiltOrAhead

\* Opening the file of a sealed segment, trimmed or not, finds what was there.
LEMMA OpeningKeeps ==
    ASSUME NEW s, SegOK(s), s.batches # <<>>,
           NEW file, file = s.index.file \/ file = TrimmedFile(s.index),
           NEW t, t = OpenSealed(Base, s.batches, file, s.thrown)
    PROVE  /\ SegOK(t) /\ t.batches = s.batches
           /\ SealedOK(t, EndOf(Base, s.batches))
           /\ IndexOf(s.index, Base, s.batches) => CleanedOK(t) \/ Ahead(t.index, t.batches)
           /\ IndexOf(s.index, Base, s.batches) => IndexOf(t.index, Base, t.batches)
<1> DEFINE B == s.batches
           e == EndOf(Base, B)
<1>1. /\ Base \in Nat /\ MaxUint32 \in Nat /\ Fits(Base, B) /\ IndexAhead(s.index, Base, B, e)
  BY SegmentAssumption DEF SegOK
<1>2. s.thrown = FALSE
  BY DEF SegOK, SegmentRecord
<1> DEFINE index  == s.index
           thrown == s.thrown
<1>3. /\ t = OpenSealed(Base, B, file, thrown) /\ B # <<>>
      /\ file \in {index.file, TrimmedFile(index)}
      /\ IndexAhead(index, Base, B, e)
  BY <1>1
<1> HIDE DEF B, e, index, thrown
<1>4. /\ t = SegmentRecord(Base, B, SizeOf(B), t.next, t.index, t.since, FALSE)
      /\ t.since = 0
      /\ SameEntries(t.index, s.index)
      /\ ~Ahead(s.index, B) => t.next = EndOf(Base, B)
  <2>1. OpenedWith(t, Base, B, index, thrown)
    BY <1>1, <1>3, OpenedSegment, Zenon
  <2> QED
    BY <1>2, <2>1 DEF OpenedWith, index, thrown
<1>5. t.batches = B
  BY <1>4 DEF SegmentRecord
<1>6. /\ IndexAhead(t.index, Base, B, e)
      /\ IndexOf(s.index, Base, B) => IndexOf(t.index, Base, B)
  BY <1>1, <1>4, SameIsAhead
<1>7. SegOK(t)
  <2>1. t.since \in Nat
    BY <1>4
  <2>2. t = SegmentRecord(Base, t.batches, SizeOf(t.batches), t.next, t.index, t.since, FALSE)
    BY <1>4, <1>5
  <2> QED
    BY <1>1, <1>5, <1>6, <2>1, <2>2 DEF SegOK, e
<1>8. Ahead(t.index, B) <=> Ahead(s.index, B)
  <2>1. /\ t.index.count = s.index.count /\ t.index.count \in Nat
        /\ \A i \in 1..t.index.count : t.index.file[i] = s.index.file[i]
    BY <1>4 DEF SameEntries
  <2> QED
    BY <2>1 DEF Ahead
<1>9. SealedOK(t, EndOf(Base, B))
  BY <1>3, <1>4, <1>5, <1>8 DEF SealedOK
<1>10. ASSUME IndexOf(s.index, Base, B) PROVE CleanedOK(t) \/ Ahead(t.index, B)
  BY <1>3, <1>4, <1>5, <1>6, <1>8, <1>10 DEF CleanedOK
<1> QED
  BY <1>5, <1>6, <1>7, <1>9, <1>10 DEF B

\* No entry of an index of batches is ahead of them.
LEMMA OfIsNotAhead ==
    ASSUME NEW index, NEW B, Fits(Base, B), IndexOf(index, Base, B)
    PROVE  ~Ahead(index, B)
<1>1. B \in Seq(BatchSet) /\ Len(B) \in Nat
  BY DEF Fits, Ordered
<1> SUFFICES ASSUME index.count > 0 PROVE index.file[index.count].position # SizeOf(B)
  BY DEF Ahead
<1>2. index.count \in 1..index.count
  BY DEF IndexOf
<1>3. PICK n \in 2..Len(B) : index.file[index.count] = Entry(B[n].first - Base, StartOf(B, n))
  BY <1>2 DEF IndexOf
<1>4. n - 1 \in 0..Len(B) /\ Len(B) \in 0..Len(B) /\ n - 1 < Len(B)
  BY <1>1
<1>5. BytesAfter(B)[n - 1] < BytesAfter(B)[Len(B)]
  BY <1>1, <1>4, BytesAre
<1>6. BytesAfter(B)[n - 1] \in Nat /\ BytesAfter(B)[Len(B)] \in Nat
  BY <1>1, <1>4, BytesAre
<1>7. StartOf(B, n) # SizeOf(B)
  BY <1>5, <1>6 DEF StartOf, SizeOf
<1> QED
  BY <1>3, <1>7 DEF Entry

\* A compacted segment ends after its last batch, whatever the old index looked like.
LEMMA CompactingKeeps ==
    ASSUME NEW s, SegOK(s), NEW kept \in Thinned(s.batches), NEW capacity \in Nat,
           NEW r, r = Rewritten(Base, capacity, IndexInterval, kept),
           NEW t, t = OpenSealed(Base, kept, TrimmedFile(r.index), s.thrown \/ r.thrown)
    PROVE  SegOK(t) /\ CleanedOK(t)
<1>1. /\ Base \in Nat /\ MaxUint32 \in Nat /\ IndexInterval \in Nat
      /\ Fits(Base, s.batches)
  BY SegmentAssumption DEF SegOK
<1>2. Fits(Base, kept) /\ kept # <<>>
  BY <1>1, ThinnedFits
<1>3. Built(r, Base, capacity, kept)
  BY <1>1, <1>2, RewrittenIsBuilt
<1>4. SegOK(r) /\ r.batches = kept /\ IndexOf(r.index, Base, kept)
  BY <1>2, <1>3, BuiltIsOK, Zenon
<1>5. s.thrown = FALSE /\ r.thrown = FALSE
  BY <1>4 DEF SegOK, SegmentRecord
<1>6. t = OpenSealed(Base, r.batches, TrimmedFile(r.index), r.thrown)
  BY <1>4, <1>5
<1>7. /\ SegOK(t) /\ t.batches = kept
      /\ CleanedOK(t) \/ Ahead(t.index, kept)
      /\ IndexOf(t.index, Base, kept)
  BY <1>2, <1>4, <1>6, OpeningKeeps
<1>8. ~Ahead(t.index, kept)
  BY <1>2, <1>7, OfIsNotAhead
<1> QED
  BY <1>7, <1>8

-----------------------------------------------------------------------------
(* The steps of read() *)

\* An offset below the end of the log is in some batch, until compaction.
LEMMA EndIsReached ==
    ASSUME NEW B, Fits(Base, B), NEW offset \in Base..(EndOf(Base, B) - 1)
    PROVE  B # <<>> /\ Len(B) \in Reaching(B, offset)
<1>1. /\ Base \in Nat /\ B \in Seq(BatchSet) /\ Len(B) \in Nat
      /\ \A n \in 1..Len(B) : B[n] \in BatchSet
  BY SegmentAssumption DEF Fits, Ordered
<1>2. B # <<>>
  <2> SUFFICES ASSUME B = <<>> PROVE FALSE
    OBVIOUS
  <2>1. EndOf(Base, B) = Base
    BY DEF EndOf
  <2> QED
    BY <1>1, <2>1
<1>3. Len(B) \in 1..Len(B) /\ DOMAIN B = 1..Len(B)
  BY <1>1, <1>2
<1>4. B[Len(B)].last \in Nat
  BY <1>1, <1>3 DEF BatchSet
<1>5. EndOf(Base, B) = B[Len(B)].last + 1
  BY <1>2 DEF EndOf
<1>6. offset <= B[Len(B)].last
  BY <1>1, <1>4, <1>5
<1> QED
  BY <1>2, <1>3, <1>6 DEF Reaching

\* Taking the size covers every offset.
LEMMA SizeCovers ==
    ASSUME NEW B, Fits(Base, B), NEW e, NEW read, ReaderOK(read, B, e), read.at = "started"
    PROVE  ReaderOK([at |-> "bounded", offset |-> read.offset, maxBytes |-> read.maxBytes,
                     limit |-> SizeOf(B)], B, e)
<1>1. SizeOf(B) \in Nat
  BY SizeOfSome DEF Fits, Ordered
<1>2. read.offset \in Base..(e - 1) /\ read.maxBytes \in Nat
  BY DEF ReaderOK, Idle
<1>3. Covers(B, SizeOf(B), read.offset)
  BY DEF Covers
<1> QED
  BY <1>1, <1>2, <1>3 DEF ReaderOK

\* Scanning from where the index says serves the read.
LEMMA ScanServes ==
    ASSUME NEW s, SegOK(s), NEW e \in Nat, s.batches # <<>>,
           e <= EndOf(Base, s.batches) \/ IndexOf(s.index, Base, s.batches),
           NEW read, ReaderOK(read, s.batches, e), read.at = "bounded"
    PROVE  ReaderOK([at |-> "done", offset |-> read.offset, maxBytes |-> read.maxBytes,
                     limit |-> read.limit,
                     range |-> ReadSegment(Base, s.batches, read.limit, s.index, read.offset,
                                           read.maxBytes)], s.batches, e)
<1> DEFINE B     == s.batches
           index == s.index
           done  == [at |-> "done", offset |-> read.offset, maxBytes |-> read.maxBytes,
                     limit |-> read.limit,
                     range |-> ReadSegment(Base, B, read.limit, index, read.offset, read.maxBytes)]
<1>1. /\ Base \in Nat /\ Fits(Base, B) /\ Ordered(B) /\ Len(B) \in Nat
      /\ IndexAhead(index, Base, B, EndOf(Base, B))
  BY SegmentAssumption DEF SegOK, Fits, Ordered
<1>2. /\ read.offset \in Base..(e - 1) /\ read.offset \in Nat /\ read.maxBytes \in Nat
      /\ read.limit \in Nat /\ Covers(B, read.limit, read.offset)
  BY <1>1 DEF ReaderOK, Idle
<1>3. EndOf(Base, B) \in Int
  <2>1. Len(B) \in 1..Len(B) /\ B[Len(B)] \in BatchSet
    BY <1>1 DEF Ordered
  <2> QED
    BY <2>1 DEF EndOf, BatchSet
<1>4. Points(index.file, index.count, Base, B, read.offset)
  <2>1. ASSUME NEW i \in 1..index.count
        PROVE  \/ index.file[i].relative > read.offset - Base
               \/ \E n \in 1..Len(B) : index.file[i] = Entry(B[n].first - Base, StartOf(B, n))
    <3>1. CASE \E n \in 2..Len(B) : index.file[i] = Entry(B[n].first - Base, StartOf(B, n))
      BY <1>1, <3>1
    <3>2. CASE /\ e <= EndOf(Base, B)
               /\ index.file[i] = Entry(EndOf(Base, B) - Base, SizeOf(B))
      <4>1. index.file[i].relative = EndOf(Base, B) - Base
        BY <3>2 DEF Entry
      <4>2. EndOf(Base, B) - Base > read.offset - Base
        BY <1>1, <1>2, <1>3, <3>2
      <4> QED
        BY <4>1, <4>2
    <3>3. CASE IndexOf(index, Base, B)
      BY <3>1, <3>3 DEF IndexOf
    <3> QED
      BY <1>1, <3>1, <3>2, <3>3 DEF IndexAhead
  <2> QED
    BY <2>1 DEF Points
<1>5. /\ done.offset = read.offset /\ done.maxBytes = read.maxBytes /\ done.limit = read.limit
      /\ done.at = "done"
      /\ done.range = ReadSegment(Base, B, read.limit, index, read.offset, read.maxBytes)
  OBVIOUS
<1>6. index.file \in Seq(EntrySet) /\ index.count \in 0..Len(index.file) /\ B # <<>>
  BY <1>1 DEF IndexAhead
<1> HIDE DEF B, index, done
<1>7. ServedFrom(B, done)
  <2>1. IsRead(B, Base, index, done)
    BY <1>1, <1>2, <1>4, <1>5, <1>6 DEF IsRead
  <2> QED
    BY <2>1, WhatIsReadIsServed
<1>8. ReaderOK(done, B, e)
  BY <1>2, <1>5, <1>7 DEF ReaderOK
<1> QED
  BY <1>8 DEF B, index, done

\* A batch that is appended changes nothing for reads below it.
LEMMA AppendKeepsReader ==
    ASSUME NEW B, Fits(Base, B), NEW b \in BatchSet, NEW e, e = EndOf(Base, B),
           NEW read, ReaderOK(read, B, e)
    PROVE  ReaderOK(read, Append(B, b), e)
<1> DEFINE C == Append(B, b)
<1>1. CASE read = Idle
  BY <1>1 DEF ReaderOK
<1>2. CASE read # Idle
  <2>1. /\ read.at \in {"started", "bounded", "done"}
        /\ read.offset \in Base..(e - 1) /\ read.maxBytes \in Nat
        /\ read.at = "bounded" => read.limit \in Nat /\ Covers(B, read.limit, read.offset)
        /\ read.at = "done" => ServedFrom(B, read)
    BY <1>2 DEF ReaderOK
  <2>2. /\ Base \in Nat /\ B \in Seq(BatchSet) /\ Len(B) \in Nat /\ DOMAIN B = 1..Len(B)
    BY SegmentAssumption DEF Fits, Ordered
  <2>3. Len(B) \in Reaching(B, read.offset) /\ B # <<>>
    BY <2>1, EndIsReached
  <2>4. /\ C \in Seq(BatchSet) /\ Len(C) = Len(B) + 1
        /\ \A i \in 1..Len(B) : C[i] = B[i]
        /\ \A i \in 0..Len(B) : BytesAfter(C)[i] = BytesAfter(B)[i]
        /\ DOMAIN C = 1..Len(C)
    BY <2>2, BytesOfAppend
  <2> HIDE DEF C
  <2>5. \A n \in 1..Len(B) : n \in 1..Len(C) /\ StartOf(C, n) = StartOf(B, n)
    BY <2>2, <2>4 DEF StartOf
  <2>6. /\ \A n \in Reaching(B, read.offset) : n \in Reaching(C, read.offset) /\ n \in 1..Len(B)
        /\ \A m \in Reaching(C, read.offset) : m \in Reaching(B, read.offset) \/ m = Len(B) + 1
    BY <2>2, <2>4, <2>5 DEF Reaching
  <2>7. ASSUME read.at = "bounded" PROVE Covers(C, read.limit, read.offset)
    <3>1. CASE read.limit = SizeOf(B)
      <4>1. BytesAfter(C)[Len(B)] = SizeOf(B) /\ SizeOf(B) \in Nat
        BY <2>2, <2>4, SizeOfSome DEF SizeOf
      <4>2. BytesAfter(C)[Len(B)] <= read.limit
        BY <3>1, <4>1
      <4> QED
        BY <2>3, <2>6, <4>2 DEF Covers
    <3>2. CASE \E n \in Reaching(B, read.offset) : BytesAfter(B)[n] <= read.limit
      <4>1. PICK n \in Reaching(B, read.offset) : BytesAfter(B)[n] <= read.limit
        BY <3>2
      <4>2. n \in Reaching(C, read.offset) /\ BytesAfter(C)[n] = BytesAfter(B)[n]
        BY <2>2, <2>4, <2>6
      <4> QED
        BY <4>1, <4>2 DEF Covers
    <3> QED
      BY <2>1, <2>7, <3>1, <3>2 DEF Covers
  <2>8. ASSUME read.at = "done" PROVE ServedFrom(C, read)
    <3>1. ServedFrom(B, read)
      BY <2>1, <2>8
    <3>2. PICK n \in Reaching(B, read.offset) :
                /\ \A m \in Reaching(B, read.offset) : n <= m
                /\ read.range.position = StartOf(B, n)
                /\ B[n].size <= read.range.length
                /\ read.range.length <= B[n].size \/ read.range.length <= read.maxBytes
                /\ read.range.position + read.range.length <= read.limit
      BY <2>3, <3>1 DEF ServedFrom
    <3>3. n \in Reaching(C, read.offset) /\ n \in 1..Len(B) /\ C[n] = B[n] /\ StartOf(C, n) = StartOf(B, n)
      BY <2>4, <2>5, <2>6
    <3>4. \A m \in Reaching(C, read.offset) : n <= m
      BY <2>2, <2>6, <3>2, <3>3
    <3>5. Reaching(C, read.offset) # {}
      BY <3>3
    <3> QED
      BY <3>2, <3>3, <3>4, <3>5 DEF ServedFrom
  <2>9. ReaderOK(read, C, e)
    BY <2>1, <2>7, <2>8 DEF ReaderOK
  <2> QED
    BY <2>9 DEF C
<1> QED
  BY <1>1, <1>2

\* Nor does a log that ends later.
LEMMA LaterKeepsReader ==
    ASSUME NEW B, NEW e \in Nat, NEW f \in Nat, e <= f, NEW read, ReaderOK(read, B, e)
    PROVE  ReaderOK(read, B, f)
<1>1. Base \in Nat
  BY SegmentAssumption
<1>2. read.offset \in Base..(e - 1) => read.offset \in Base..(f - 1)
  BY <1>1
<1> QED
  BY <1>2 DEF ReaderOK

-----------------------------------------------------------------------------
(* The invariant *)

\* What the steps of the appender assume of the shapes of batches.
LEMMA ShapesFit ==
    ASSUME NEW shape \in BatchShapes
    PROVE  /\ shape.records \in Nat \ {0} /\ shape.size \in Nat \ {0}
           /\ shape.records <= shape.size /\ MaxSegmentBytes + shape.size <= MaxUint32
BY SegmentAssumption

\* A new segment is as recover() leaves one without batches.
LEMMA NewIsOK ==
    ASSUME NEW capacity \in Nat, NEW s, s = CreateSegment(Base, capacity)
    PROVE  SegOK(s) /\ Chained(Base, s.batches) /\ IdleOK(s, Base)
<1> DEFINE none == <<>>
<1>1. Base \in Nat /\ MaxUint32 \in Nat /\ IndexInterval \in Nat
  BY SegmentAssumption
<1>2. Len(none) = 0 /\ none \in Seq(BatchSet) /\ SizeOf(none) = 0 /\ EndOf(Base, none) = Base
  BY SizeOfNone DEF EndOf
<1> HIDE DEF none
<1>3. Fits(Base, none)
  BY <1>1, <1>2 DEF Fits, Ordered
<1>4. Chained(Base, none)
  BY <1>1, <1>2, <1>3 DEF Chained
<1>5. Built(s, Base, capacity, none)
  BY <1>1, NewSegmentIsBuilt DEF none
<1>6. /\ SegOK(s) /\ s.batches = none /\ s.next = Base /\ Len(s.index.file) = capacity
  BY <1>2, <1>3, <1>5, BuiltIsOK
<1>7. Rewritten(Base, capacity, IndexInterval, none) = s
  <2>1. Rewrites(RewrittenAfter(Base, capacity, IndexInterval, none), Base, capacity,
                 IndexInterval, none)
    BY <1>2, RewrittenAfterRewrites
  <2> QED
    BY <1>2, <2>1 DEF Rewrites, Rewritten
<1>8. Rebuilt(s) = s
  BY <1>6, <1>7 DEF Rebuilt
<1> QED
  BY <1>2, <1>4, <1>6, <1>8 DEF IdleOK, BuiltOrAhead

\* It holds of a new segment.
LEMMA InitOK == SegmentInit => SegmentInv
<1> SUFFICES ASSUME SegmentInit PROVE SegmentInv
  OBVIOUS
<1>1. PICK capacity \in Capacities : seg = CreateSegment(Base, capacity)
  BY DEF SegmentInit
<1>2. capacity \in Nat /\ Base \in Nat
  BY SegmentAssumption
<1>3. SegOK(seg) /\ Chained(Base, seg.batches) /\ IdleOK(seg, Base)
  BY <1>1, <1>2, NewIsOK
<1>4. /\ phase = "active" /\ step = "idle" /\ end = Base
      /\ readers = [r \in Readers |-> Idle]
  BY DEF SegmentInit
<1>5. ActiveOK(seg, end, step, incoming)
  BY <1>3, <1>4 DEF ActiveOK
<1>6. \A r \in Readers : readers[r] = Idle
  BY <1>4
<1>7. /\ readers = [r \in Readers |-> readers[r]]
      /\ \A r \in Readers : ReaderOK(readers[r], seg.batches, end)
  BY <1>4, <1>6 DEF ReaderOK
<1> QED
  BY <1>2, <1>3, <1>4, <1>5, <1>7 DEF SegmentInv

\* A segment that is active is in one of the three stages of append().
LEMMA StageOf ==
    ASSUME NEW s, NEW e, NEW at, NEW b, ActiveOK(s, e, at, b)
    PROVE  /\ Chained(Base, s.batches)
           /\ at = "idle" => IdleOK(s, e)
           /\ at = "indexed" => IndexedOK(s, e, b)
           /\ at = "written" => WrittenOK(s, e, b)
           /\ at \in {"idle", "indexed", "written"}
BY DEF ActiveOK

\* All readers start again.
LEMMA ForgottenReaders ==
    ASSUME readers' = [r \in Readers |-> Idle]
    PROVE  /\ readers' = [r \in Readers |-> readers'[r]]
           /\ \A r \in Readers : \A B, e : ReaderOK(readers'[r], B, e)
BY DEF ReaderOK

\* What every step finds.
LEMMA InvSays ==
    ASSUME SegmentInv
    PROVE  /\ SegOK(seg) /\ end \in Nat /\ Fits(Base, seg.batches)
           /\ phase = "active" => ActiveOK(seg, end, step, incoming)
           /\ step # "idle" => phase = "active"
           /\ phase = "sealed" => SealedOK(seg, end)
           /\ phase = "cleaned" => CleanedOK(seg)
           /\ phase = "damaged" => Unread
           /\ phase \in {"active", "sealed", "cleaned", "damaged"}
           /\ readers = [r \in Readers |-> readers[r]]
           /\ \A r \in Readers : ReaderOK(readers[r], seg.batches, end)
BY DEF SegmentInv, SegOK

\* A step that leaves the readers alone, and the batches and the end of the log.
LEMMA SameReaders ==
    ASSUME SegmentInv, UNCHANGED <<end, readers>>, seg'.batches = seg.batches
    PROVE  /\ readers' = [r \in Readers |-> readers'[r]]
           /\ \A r \in Readers : ReaderOK(readers'[r], seg'.batches, end')
<1>1. /\ readers = [r \in Readers |-> readers[r]]
      /\ \A r \in Readers : ReaderOK(readers[r], seg.batches, end)
  BY InvSays
<1> QED
  BY <1>1

\* The batch that append() stamps comes next.
LEMMA StampedComesNext ==
    ASSUME NEW B, Chained(Base, B), NEW shape \in BatchShapes,
           B = <<>> \/ SizeOf(B) < MaxSegmentBytes,
           NEW e, e = EndOf(Base, B),
           NEW b, b = [first |-> e, last |-> e + shape.records - 1, size |-> shape.size]
    PROVE  ComesNext(b, B)
<1>1. /\ shape.records \in Nat \ {0} /\ shape.size \in Nat \ {0}
      /\ shape.records <= shape.size /\ MaxSegmentBytes + shape.size <= MaxUint32
  BY ShapesFit
<1>2. e \in Nat
  BY EndIsNear
<1>3. MaxSegmentBytes \in Nat /\ MaxUint32 \in Nat /\ SizeOf(B) \in Nat /\ SizeOf(<<>>) = 0
  BY SegmentAssumption, SizeOfSome, SizeOfNone DEF Chained, Fits, Ordered
<1> DEFINE x == shape.records
           z == shape.size
           w == SizeOf(B)
           last == e + x - 1
<1>4. x \in Nat \ {0} /\ z \in Nat \ {0} /\ x <= z /\ MaxSegmentBytes + z <= MaxUint32 /\ w \in Nat
  BY <1>1, <1>3
<1>5. w = 0 \/ w < MaxSegmentBytes
  BY <1>3
<1>6. b = [first |-> e, last |-> last, size |-> z]
  OBVIOUS
<1> HIDE DEF x, z, w
<1>7. last \in Nat /\ e <= last /\ last - e < z
  BY <1>2, <1>4
<1> HIDE DEF last
<1>8. w + z <= MaxUint32
  BY <1>3, <1>4, <1>5
<1>9. b \in BatchSet /\ b.first = e /\ b.last = last /\ b.size = z
  BY <1>2, <1>4, <1>6, <1>7 DEF BatchSet
<1> QED
  BY <1>7, <1>8, <1>9 DEF ComesNext, w

\* The first step of append().
LEMMA BeginAppendOK ==
    ASSUME SegmentInv, NEW shape \in BatchShapes, BeginAppend(shape)
    PROVE  SegmentInv'
<1>1. /\ phase = "active" /\ step = "idle" /\ ~MustRoll
      /\ incoming' = [first |-> end, last |-> end + shape.records - 1, size |-> shape.size]
      /\ seg' = AddIndexEntry(seg, IndexInterval, incoming')
      /\ step' = "indexed"
      /\ UNCHANGED <<phase, end, readers>>
  BY DEF BeginAppend
<1>2. SegOK(seg) /\ end \in Nat /\ Chained(Base, seg.batches) /\ IdleOK(seg, end)
  BY <1>1, InvSays, StageOf
<1>3. /\ end = EndOf(Base, seg.batches) /\ seg.next = EndOf(Base, seg.batches)
      /\ BuiltOrAhead(seg)
  BY <1>2 DEF IdleOK
<1>4. /\ SizeOf(seg.batches) \in Nat /\ seg.size = SizeOf(seg.batches)
      /\ Len(seg.index.file) \in Nat /\ seg.index.count \in Nat /\ MaxSegmentBytes \in Nat
  <2>1. seg.batches \in Seq(BatchSet) /\ seg.index.file \in Seq(EntrySet)
        /\ seg.index.count \in 0..Len(seg.index.file)
    BY <1>2 DEF SegOK, Fits, Ordered, IndexAhead
  <2>2. seg.size = SizeOf(seg.batches)
    BY <1>2 DEF SegOK, SegmentRecord
  <2> QED
    BY <2>1, <2>2, SizeOfSome, SegmentAssumption
<1>5. /\ seg.batches = <<>> \/ SizeOf(seg.batches) < MaxSegmentBytes
      /\ seg.batches = <<>> \/ seg.index.count < Len(seg.index.file)
  BY <1>1, <1>4 DEF MustRoll
<1>6. ComesNext(incoming', seg.batches)
  BY <1>1, <1>2, <1>3, <1>5, StampedComesNext
<1>7. /\ SegOK(seg') /\ seg'.batches = seg.batches
      /\ IndexedOK(seg', end, incoming')
  BY <1>1, <1>2, <1>3, <1>5, <1>6, BeginAdds
<1>8. ActiveOK(seg', end', step', incoming')
  BY <1>1, <1>2, <1>7 DEF ActiveOK
<1>9. /\ readers' = [r \in Readers |-> readers'[r]]
      /\ \A r \in Readers : ReaderOK(readers'[r], seg'.batches, end')
  BY <1>1, <1>7, SameReaders
<1> QED
  BY <1>1, <1>2, <1>7, <1>8, <1>9 DEF SegmentInv

\* The second.
LEMMA WriteBytesOK ==
    ASSUME SegmentInv, WriteBytes
    PROVE  SegmentInv'
<1>1. /\ step = "indexed" /\ seg' = WriteBatch(seg, incoming) /\ step' = "written"
      /\ UNCHANGED <<phase, end, incoming, readers>>
  BY DEF WriteBytes
<1>2. /\ SegOK(seg) /\ end \in Nat /\ phase = "active" /\ Fits(Base, seg.batches)
      /\ Chained(Base, seg.batches) /\ IndexedOK(seg, end, incoming)
      /\ readers = [r \in Readers |-> readers[r]]
      /\ \A r \in Readers : ReaderOK(readers[r], seg.batches, end)
  BY <1>1, InvSays, StageOf
<1>3. /\ SegOK(seg') /\ seg'.batches = Append(seg.batches, incoming)
      /\ Chained(Base, seg'.batches) /\ WrittenOK(seg', end, incoming)
  BY <1>1, <1>2, WriteAdds
<1>4. ActiveOK(seg', end', step', incoming')
  BY <1>1, <1>3 DEF ActiveOK
<1>5. end = EndOf(Base, seg.batches) /\ incoming \in BatchSet
  BY <1>2 DEF IndexedOK, ComesNext
<1>6. \A r \in Readers : ReaderOK(readers[r], Append(seg.batches, incoming), end)
  BY <1>2, <1>5, AppendKeepsReader
<1>7. /\ readers' = [r \in Readers |-> readers'[r]]
      /\ \A r \in Readers : ReaderOK(readers'[r], seg'.batches, end')
  BY <1>1, <1>2, <1>3, <1>6
<1> QED
  BY <1>1, <1>2, <1>3, <1>4, <1>7 DEF SegmentInv

\* The second, failing.
LEMMA FailToWriteOK ==
    ASSUME SegmentInv, FailToWrite
    PROVE  SegmentInv'
<1>1. /\ step = "indexed" /\ step' = "idle"
      /\ UNCHANGED <<phase, seg, end, readers>>
  BY DEF FailToWrite
<1>2. /\ SegOK(seg) /\ end \in Nat /\ phase = "active"
      /\ Chained(Base, seg.batches) /\ IndexedOK(seg, end, incoming)
  BY <1>1, InvSays, StageOf
<1>3. IdleOK(seg, end)
  BY <1>2, FailingLeavesIdle
<1>4. ActiveOK(seg', end', step', incoming')
  BY <1>1, <1>2, <1>3 DEF ActiveOK
<1>5. /\ readers' = [r \in Readers |-> readers'[r]]
      /\ \A r \in Readers : ReaderOK(readers'[r], seg'.batches, end')
  BY <1>1, SameReaders
<1> QED
  BY <1>1, <1>2, <1>4, <1>5 DEF SegmentInv

\* The third.
LEMMA PublishOK ==
    ASSUME SegmentInv, Publish
    PROVE  SegmentInv'
<1>1. /\ step = "written" /\ seg' = PublishBatch(seg, incoming) /\ end' = seg'.next
      /\ step' = "idle"
      /\ UNCHANGED <<phase, readers>>
  BY DEF Publish
<1>2. /\ SegOK(seg) /\ end \in Nat /\ phase = "active" /\ Fits(Base, seg.batches)
      /\ Chained(Base, seg.batches) /\ WrittenOK(seg, end, incoming)
      /\ readers = [r \in Readers |-> readers[r]]
      /\ \A r \in Readers : ReaderOK(readers[r], seg.batches, end)
  BY <1>1, InvSays, StageOf
<1>3. /\ SegOK(seg') /\ seg'.batches = seg.batches /\ IdleOK(seg', seg'.next)
      /\ seg'.next = incoming.last + 1
  BY <1>1, <1>2, PublishEnds
<1>4. end' \in Nat /\ end <= end'
  <2> DEFINE n == Len(seg.batches)
  <2>1. n \in 1..n /\ incoming = seg.batches[n] /\ incoming \in BatchSet /\ end = incoming.first
    BY <1>2 DEF WrittenOK, Fits, Ordered
  <2>2. incoming.first <= incoming.last
    BY <1>2, <2>1 DEF Fits, Ordered
  <2>3. incoming.last \in Nat /\ incoming.first \in Nat
    BY <2>1 DEF BatchSet
  <2> QED
    BY <1>1, <1>3, <2>1, <2>2, <2>3
<1>5. ActiveOK(seg', end', step', incoming')
  BY <1>1, <1>2, <1>3 DEF ActiveOK
<1>6. \A r \in Readers : ReaderOK(readers[r], seg.batches, end')
  BY <1>2, <1>4, LaterKeepsReader
<1>7. /\ readers' = [r \in Readers |-> readers'[r]]
      /\ \A r \in Readers : ReaderOK(readers'[r], seg'.batches, end')
  BY <1>1, <1>2, <1>3, <1>6
<1> QED
  BY <1>1, <1>2, <1>3, <1>4, <1>5, <1>7 DEF SegmentInv

\* A step of one reader.
LEMMA OneReaderOK ==
    ASSUME SegmentInv, NEW r \in Readers, NEW x, ReaderOK(x, seg.batches, end),
           phase # "damaged", readers' = [readers EXCEPT ![r] = x],
           UNCHANGED <<phase, seg, end, step, incoming>>
    PROVE  SegmentInv'
<1>1. /\ readers = [q \in Readers |-> readers[q]]
      /\ \A q \in Readers : ReaderOK(readers[q], seg.batches, end)
  BY InvSays
<1>2. /\ readers' = [q \in Readers |-> readers'[q]]
      /\ \A q \in Readers : readers'[q] = IF q = r THEN x ELSE readers[q]
  BY <1>1
<1>3. \A q \in Readers : ReaderOK(readers'[q], seg'.batches, end')
  BY <1>1, <1>2
<1> QED
  BY <1>2, <1>3 DEF SegmentInv

\* read() begins.
LEMMA StartReadOK ==
    ASSUME SegmentInv, NEW r \in Readers, StartRead(r)
    PROVE  SegmentInv'
<1>1. PICK offset \in Base..(end - 1), maxBytes \in FetchSizes :
            readers' = [readers EXCEPT ![r] =
                            [at |-> "started", offset |-> offset, maxBytes |-> maxBytes]]
  BY DEF StartRead
<1>2. maxBytes \in Nat
  BY SegmentAssumption
<1>3. ReaderOK([at |-> "started", offset |-> offset, maxBytes |-> maxBytes], seg.batches, end)
  BY <1>2 DEF ReaderOK
<1>4. UNCHANGED <<phase, seg, end, step, incoming>>
  BY DEF StartRead
<1>5. phase # "damaged"
  BY DEF StartRead
<1> QED
  BY <1>1, <1>3, <1>4, <1>5, OneReaderOK

\* The size is taken.
LEMMA TakeSizeOK ==
    ASSUME SegmentInv, NEW r \in Readers, TakeSize(r)
    PROVE  SegmentInv'
<1> DEFINE read == readers[r]
           x    == [at |-> "bounded", offset |-> read.offset, maxBytes |-> read.maxBytes,
                    limit |-> seg.size]
<1>1. /\ read.at = "started" /\ readers' = [readers EXCEPT ![r] = x]
      /\ UNCHANGED <<phase, seg, end, step, incoming>>
  BY DEF TakeSize
<1>2. SegOK(seg) /\ Fits(Base, seg.batches) /\ ReaderOK(read, seg.batches, end)
  BY InvSays
<1>3. seg.size = SizeOf(seg.batches)
  BY <1>2 DEF SegOK, SegmentRecord
<1>4. ReaderOK(x, seg.batches, end)
  <2> HIDE DEF read
  <2> QED
    BY <1>1, <1>2, <1>3, SizeCovers
<1>5. phase # "damaged"
  BY <1>1, InvSays DEF Unread
<1> HIDE DEF x
<1> QED
  BY <1>1, <1>4, <1>5, OneReaderOK

\* The file is scanned.
LEMMA ScanOK ==
    ASSUME SegmentInv, NEW r \in Readers, Scan(r)
    PROVE  SegmentInv'
<1> DEFINE read == readers[r]
           x    == [at |-> "done", offset |-> read.offset, maxBytes |-> read.maxBytes,
                    limit |-> read.limit,
                    range |-> ReadSegment(Base, seg.batches, read.limit, seg.index, read.offset,
                                          read.maxBytes)]
<1>1. /\ read.at = "bounded" /\ readers' = [readers EXCEPT ![r] = x]
      /\ UNCHANGED <<phase, seg, end, step, incoming>>
  BY DEF Scan
<1>2. /\ SegOK(seg) /\ end \in Nat /\ Fits(Base, seg.batches)
      /\ ReaderOK(read, seg.batches, end)
  BY InvSays
<1>a. phase # "damaged"
  BY <1>1, InvSays DEF Unread
<1>3. \/ end <= EndOf(Base, seg.batches)
      \/ seg.batches # <<>> /\ IndexOf(seg.index, Base, seg.batches)
  <2>1. CASE phase = "active"
    <3>1. ActiveOK(seg, end, step, incoming)
      BY <2>1, InvSays
    <3>2. CASE step = "written"
      <4>1. Chained(Base, seg.batches) /\ WrittenOK(seg, end, incoming)
        BY <3>1, <3>2, StageOf
      <4> DEFINE n == Len(seg.batches)
      <4>2. /\ n \in 1..n /\ EndOf(Base, seg.batches) = seg.batches[n].last + 1
            /\ end = seg.batches[n].first
        BY <4>1, EndIsNear DEF WrittenOK
      <4>3. /\ seg.batches[n].first <= seg.batches[n].last
            /\ seg.batches[n] \in BatchSet
        BY <1>2, <4>2 DEF Fits, Ordered
      <4> QED
        BY <4>2, <4>3 DEF BatchSet
    <3>3. CASE step # "written"
      <4>1. end = EndOf(Base, seg.batches)
        BY <3>1, <3>3, StageOf DEF IdleOK, IndexedOK
      <4> QED
        BY <1>2, <4>1
    <3> QED
      BY <3>2, <3>3
  <2>2. CASE phase = "sealed"
    BY <1>2, <2>2, InvSays DEF SealedOK
  <2>3. CASE phase = "cleaned"
    BY <2>3, InvSays DEF CleanedOK
  <2> QED
    BY <1>a, <2>1, <2>2, <2>3, InvSays
<1>4. seg.batches # <<>>
  <2>1. CASE end <= EndOf(Base, seg.batches)
    <3>1. read.offset \in Base..(end - 1)
      BY <1>1, <1>2 DEF ReaderOK, Idle
    <3>2. Base \in Nat
      BY SegmentAssumption
    <3> SUFFICES ASSUME seg.batches = <<>> PROVE FALSE
      OBVIOUS
    <3>3. EndOf(Base, seg.batches) = Base
      BY DEF EndOf
    <3> QED
      BY <1>2, <2>1, <3>1, <3>2, <3>3
  <2> QED
    BY <1>3, <2>1
<1>5. ReaderOK(x, seg.batches, end)
  <2> HIDE DEF read
  <2> QED
    BY <1>1, <1>2, <1>3, <1>4, ScanServes
<1> HIDE DEF x
<1> QED
  BY <1>1, <1>5, <1>a, OneReaderOK

\* A segment that has something is sealed, its file trimmed or not.
LEMMA SealingOK ==
    ASSUME SegmentInv, phase = "active", step = "idle", seg.next # Base,
           NEW file, file = seg.index.file \/ file = TrimmedFile(seg.index),
           seg' = OpenSealed(Base, seg.batches, file, seg.thrown)
    PROVE  SegOK(seg') /\ seg'.batches = seg.batches /\ SealedOK(seg', end)
<1>1. SegOK(seg) /\ IdleOK(seg, end)
  BY InvSays, StageOf
<1>2. end = EndOf(Base, seg.batches) /\ seg.next = end
  BY <1>1 DEF IdleOK
<1>3. seg.batches # <<>>
  BY <1>2 DEF EndOf
<1> QED
  BY <1>1, <1>2, <1>3, OpeningKeeps

\* seal() in a roll.
LEMMA SealOK ==
    ASSUME SegmentInv, Seal
    PROVE  SegmentInv'
<1>1. /\ phase = "active" /\ step = "idle" /\ seg.next # Base /\ phase' = "sealed"
      /\ seg' = OpenSealed(Base, seg.batches, TrimmedFile(seg.index), seg.thrown)
      /\ UNCHANGED <<end, step, incoming, readers>>
  BY DEF Seal, Rollable
<1>2. SegOK(seg') /\ seg'.batches = seg.batches /\ SealedOK(seg', end)
  BY <1>1, SealingOK
<1>3. /\ readers' = [r \in Readers |-> readers'[r]]
      /\ \A r \in Readers : ReaderOK(readers'[r], seg'.batches, end')
  BY <1>1, <1>2, SameReaders
<1>4. end' \in Nat
  BY <1>1, InvSays
<1> QED
  BY <1>1, <1>2, <1>3, <1>4 DEF SegmentInv

\* A roll, with bytes of a failed append behind the last batch.
LEMMA SealTheRestOK ==
    ASSUME SegmentInv, SealTheRest
    PROVE  SegmentInv'
<1>1. /\ step = "idle" /\ Unread /\ phase' = "damaged"
      /\ UNCHANGED <<seg, end, step, incoming, readers>>
  BY DEF SealTheRest, Rollable
<1>2. /\ readers' = [r \in Readers |-> readers'[r]]
      /\ \A r \in Readers : ReaderOK(readers'[r], seg'.batches, end')
  BY <1>1, SameReaders
<1>3. SegOK(seg') /\ end' \in Nat
  BY <1>1, InvSays
<1>4. Unread'
  BY <1>1 DEF Unread
<1> QED
  BY <1>1, <1>2, <1>3, <1>4 DEF SegmentInv

\* A roll that is not finished.
LEMMA DieInRollOK ==
    ASSUME SegmentInv, DieInRoll
    PROVE  SegmentInv'
<1>1. /\ phase = "active" /\ step = "idle" /\ seg.next # Base /\ phase' = "sealed"
      /\ seg' = OpenSealed(Base, seg.batches, seg.index.file, seg.thrown)
      /\ step' = "idle" /\ readers' = [r \in Readers |-> Idle] /\ end' = end
  BY DEF DieInRoll, Rollable, Forgotten
<1>2. SegOK(seg') /\ seg'.batches = seg.batches /\ SealedOK(seg', end)
  BY <1>1, SealingOK
<1>3. /\ readers' = [r \in Readers |-> readers'[r]]
      /\ \A r \in Readers : ReaderOK(readers'[r], seg'.batches, end')
  BY <1>1, ForgottenReaders
<1>4. end' \in Nat
  BY <1>1, InvSays
<1> QED
  BY <1>1, <1>2, <1>3, <1>4 DEF SegmentInv

\* recover() after a crash at any moment.
LEMMA DieAndRecoverOK ==
    ASSUME SegmentInv, DieAndRecover
    PROVE  SegmentInv'
<1>1. /\ phase = "active" /\ phase' = "active" /\ end' = seg'.next
      /\ step' = "idle" /\ readers' = [r \in Readers |-> Idle]
  BY DEF DieAndRecover, Forgotten
<1>2. PICK capacity \in Capacities :
            seg' = Recovered(Base, capacity, IndexInterval, seg.batches)
  BY DEF DieAndRecover
<1>3. capacity \in Nat
  BY SegmentAssumption
<1>4. Chained(Base, seg.batches)
  BY <1>1, InvSays, StageOf
<1>5. SegOK(seg') /\ seg'.batches = seg.batches /\ IdleOK(seg', seg'.next)
  BY <1>2, <1>3, <1>4, RecoverBuilds
<1>6. end' \in Nat
  BY <1>1, <1>4, <1>5, EndIsNear DEF IdleOK
<1>7. ActiveOK(seg', end', step', incoming')
  BY <1>1, <1>4, <1>5 DEF ActiveOK
<1>8. /\ readers' = [r \in Readers |-> readers'[r]]
      /\ \A r \in Readers : ReaderOK(readers'[r], seg'.batches, end')
  BY <1>1, ForgottenReaders
<1> QED
  BY <1>1, <1>5, <1>6, <1>7, <1>8 DEF SegmentInv

\* A restart with a segment that was sealed.
LEMMA DieAndReopenOK ==
    ASSUME SegmentInv, DieAndReopen
    PROVE  SegmentInv'
<1>1. /\ phase \in {"sealed", "cleaned"} /\ phase' = phase /\ end' = end
      /\ seg' = OpenSealed(Base, seg.batches, seg.index.file, seg.thrown)
      /\ step' = "idle" /\ readers' = [r \in Readers |-> Idle]
  BY DEF DieAndReopen, Forgotten
<1>2. SegOK(seg) /\ end' \in Nat
  BY <1>1, InvSays
<1>3. seg.batches # <<>>
  BY <1>1, InvSays DEF SealedOK, CleanedOK
<1>4. /\ SegOK(seg') /\ seg'.batches = seg.batches
      /\ SealedOK(seg', EndOf(Base, seg.batches))
      /\ IndexOf(seg.index, Base, seg.batches) =>
            CleanedOK(seg') \/ Ahead(seg'.index, seg'.batches)
      /\ IndexOf(seg.index, Base, seg.batches) => IndexOf(seg'.index, Base, seg'.batches)
  BY <1>1, <1>2, <1>3, OpeningKeeps
<1>5. ASSUME phase = "cleaned" PROVE CleanedOK(seg')
  <2>1. IndexOf(seg.index, Base, seg.batches)
    BY <1>5, InvSays DEF CleanedOK
  <2>2. ~Ahead(seg'.index, seg'.batches)
    BY <1>4, <2>1, OfIsNotAhead DEF SegOK
  <2> QED
    BY <1>4, <2>1, <2>2
<1>6. /\ readers' = [r \in Readers |-> readers'[r]]
      /\ \A r \in Readers : ReaderOK(readers'[r], seg'.batches, end')
  BY <1>1, ForgottenReaders
<1>7. \/ phase' = "sealed" /\ SealedOK(seg', end')
      \/ phase' = "cleaned" /\ CleanedOK(seg')
  <2>1. CASE phase = "sealed"
    <3>1. end = EndOf(Base, seg.batches)
      BY <2>1, InvSays DEF SealedOK
    <3> QED
      BY <1>1, <1>4, <2>1, <3>1
  <2>2. CASE phase = "cleaned"
    BY <1>1, <1>5, <2>2
  <2> QED
    BY <1>1, <2>1, <2>2, InvSays
<1>8. step' = "idle"
  BY <1>1
<1> QED
  BY <1>2, <1>4, <1>6, <1>7, <1>8 DEF SegmentInv

\* The cleaner replaces the segment.
LEMMA CompactOK ==
    ASSUME SegmentInv, Compact
    PROVE  SegmentInv'
<1>1. /\ phase \in {"sealed", "cleaned"} /\ phase' = "cleaned" /\ readers' = [r \in Readers |-> Idle]
      /\ UNCHANGED <<end, step, incoming>>
  BY DEF Compact
<1>2. PICK kept \in Thinned(seg.batches), capacity \in Capacities :
            seg' = OpenSealed(Base, kept,
                       TrimmedFile(Rewritten(Base, capacity, IndexInterval, kept).index),
                       seg.thrown \/ Rewritten(Base, capacity, IndexInterval, kept).thrown)
  BY DEF Compact
<1>3. SegOK(seg) /\ end' \in Nat /\ capacity \in Nat /\ step' = "idle"
  BY <1>1, InvSays, SegmentAssumption
<1>4. SegOK(seg') /\ CleanedOK(seg')
  BY <1>2, <1>3, CompactingKeeps
<1>5. /\ readers' = [r \in Readers |-> readers'[r]]
      /\ \A r \in Readers : ReaderOK(readers'[r], seg'.batches, end')
  BY <1>1, ForgottenReaders
<1> QED
  BY <1>1, <1>3, <1>4, <1>5 DEF SegmentInv

-----------------------------------------------------------------------------
(* The theorems *)

\* Whatever append(), read(), seal(), recovery and compaction do, in any order and
\* with crashes between any two of their steps: the entries of the index are starts
\* of batches in their order, but for at most one at the end; what was published is
\* what the same batches, appended again, make; and the size a reader took covers
\* the batch it looks for.  A failed append may leave bytes in the file: they
\* are behind its size and harm nothing while the segment is the active one, nor
\* after a recovery; a segment that is sealed over them is given up (SealTheRest),
\* and of it this says only what it was before.
THEOREM SegmentInvariant == SegmentSpec => []SegmentInv
<1>1. SegmentInit => SegmentInv
  BY InitOK
<1>2. SegmentInv /\ [SegmentNext]_segvars => SegmentInv'
  <2> SUFFICES ASSUME SegmentInv, [SegmentNext]_segvars PROVE SegmentInv'
    OBVIOUS
  <2>1. ASSUME NEW shape \in BatchShapes, BeginAppend(shape) PROVE SegmentInv'
    BY <2>1, BeginAppendOK
  <2>2. CASE WriteBytes
    BY <2>2, WriteBytesOK
  <2>3. CASE FailToWrite
    BY <2>3, FailToWriteOK
  <2>4. CASE Publish
    BY <2>4, PublishOK
  <2>5. ASSUME NEW r \in Readers, StartRead(r) PROVE SegmentInv'
    BY <2>5, StartReadOK
  <2>6. ASSUME NEW r \in Readers, TakeSize(r) PROVE SegmentInv'
    BY <2>6, TakeSizeOK
  <2>7. ASSUME NEW r \in Readers, Scan(r) PROVE SegmentInv'
    BY <2>7, ScanOK
  <2>8. CASE Seal
    BY <2>8, SealOK
  <2>9. CASE DieInRoll
    BY <2>9, DieInRollOK
  <2>10. CASE DieAndRecover
    BY <2>10, DieAndRecoverOK
  <2>11. CASE DieAndReopen
    BY <2>11, DieAndReopenOK
  <2>12. CASE Compact
    BY <2>12, CompactOK
  <2>13. CASE UNCHANGED segvars
    BY <2>13 DEF segvars, SegmentInv, Unread
  <2>14. CASE SealTheRest
    BY <2>14, SealTheRestOK
  <2> QED
    BY <2>1, <2>2, <2>3, <2>4, <2>5, <2>6, <2>7, <2>8, <2>9, <2>10, <2>11, <2>12, <2>13, <2>14
    DEF SegmentNext
<1> QED
  BY <1>1, <1>2, PTL DEF SegmentSpec

\* What the invariant says of a reader that is done.
LEMMA DoneIsServed ==
    ASSUME NEW read, NEW B, NEW e, ReaderOK(read, B, e), read.at = "done"
    PROVE  ServedFrom(B, read)
BY DEF ReaderOK, Idle

\* The index only ever saves time: a read() that overlaps appends, failing ones
\* too, finds the batch with its offset, a sealed or compacted segment ends where
\* its last batch does although only what follows the last entry is looked at, what
\* recover() builds is what append() had built, and append() never throws for the
\* index.  Of a segment sealed right after an append that failed, nothing is said
\* of its end when that append left an index entry (Dangling), and nothing at all
\* when it left bytes in the file (SealTheRest): there the code does go wrong.
THEOREM SegmentIndexIsOnlyAHint == SegmentSpec => []IndexIsOnlyAHint
<1>1. SegmentInv => IndexIsOnlyAHint
  <2> SUFFICES ASSUME SegmentInv PROVE IndexIsOnlyAHint
    OBVIOUS
  <2>1. /\ SegOK(seg) /\ Fits(Base, seg.batches)
        /\ seg.size = SizeOf(seg.batches) /\ seg.thrown = FALSE
    BY InvSays DEF SegOK, SegmentRecord
  <2>2. Dangling <=> Ahead(seg.index, seg.batches)
    BY <2>1 DEF Dangling, Ahead
  <2>3. ReadersFindTheirBatch
    <3> SUFFICES ASSUME NEW r \in Readers, readers[r].at = "done" PROVE RangeFor(readers[r])
      BY DEF ReadersFindTheirBatch
    <3>1. ServedFrom(seg.batches, readers[r])
      BY InvSays, DoneIsServed
    <3> QED
      BY <3>1 DEF ServedFrom, RangeFor, Reaching
  <2>4. EndsAsItDid
    BY <2>2, InvSays DEF EndsAsItDid, SealedOK, CleanedOK
  <2>5. RebuiltAsItWas
    <3> SUFFICES ASSUME phase = "active", step = "idle", ~Dangling
                 PROVE  seg = Recovered(Base, Len(seg.index.file), IndexInterval, seg.batches)
      BY DEF RebuiltAsItWas
    <3>1. Chained(Base, seg.batches) /\ IdleOK(seg, end)
      BY InvSays, StageOf
    <3>2. seg = Rebuilt(seg)
      BY <2>2, <3>1 DEF IdleOK, BuiltOrAhead
    <3>3. Base \in Nat /\ MaxUint32 \in Nat /\ IndexInterval \in Nat
          /\ Len(seg.index.file) \in Nat
      BY <2>1, RebuiltIsBuilt, SegmentAssumption
    <3>4. Recovered(Base, Len(seg.index.file), IndexInterval, seg.batches) = Rebuilt(seg)
      BY <3>1, <3>3, RecoveredIsRewritten DEF Rebuilt
    <3> QED
      BY <3>2, <3>4
  <2> QED
    BY <2>1, <2>3, <2>4, <2>5 DEF IndexIsOnlyAHint
<1> QED
  BY <1>1, SegmentInvariant, PTL

=============================================================================
