------------------------------ MODULE Assignor ------------------------------
(***************************************************************************)
(* The assignment strategies a group leader computes with                  *)
(* (src/src/cli/assignor): range and round-robin, as functions of the      *)
(* AssignmentInput.                                                        *)
(*                                                                         *)
(* members maps a member id to the set of topics it subscribed to, counts  *)
(* maps a topic to its number of partitions.  Ids and topics are numbers,  *)
(* ordered as the std::map keys are.  An assignment maps each member to    *)
(* the set of <<topic, partition>> pairs of its vector.                    *)
(***************************************************************************)
EXTENDS Integers, FiniteSets, Sequences

\* for (const auto& [id, subscription] : members): ascending key order.
InOrder(S) ==
    CHOOSE s \in [1..Cardinality(S) -> S] : \A i, j \in DOMAIN s : i < j => s[i] < s[j]

-----------------------------------------------------------------------------
(* assignRange *)

\* The members that asked for the topic, in order.
Interested(members, topic) == InOrder({m \in DOMAIN members : topic \in members[m]})

\* Mutant: the remainder goes to the last members.
TakeExtraLast(count, n, i) == (count \div n) + (IF n - i < count % n THEN 1 ELSE 0)

\* How many partitions the i-th of n interested members takes, i from 1.
Take(count, n, i) == (count \div n) + (IF i - 1 < count % n THEN 1 ELSE 0)

\* The counter `next` after the first i members have been served.
NextAfter(count, n) ==
    LET next[i \in 0..n] == IF i = 0 THEN 0 ELSE next[i - 1] + Take(count, n, i)
    IN  next

\* What member m gets of a topic: the block that begins where the members
\* before it left `next`.
Block(members, counts, topic, m) ==
    LET interested == Interested(members, topic)
        next       == NextAfter(counts[topic], Len(interested))
    IN  UNION {{<<topic, p>> : p \in next[i - 1]..(next[i] - 1)} :
                i \in {j \in DOMAIN interested : interested[j] = m}}

\* Contiguous blocks per topic, the remainder to the earliest members.
AssignRange(members, counts) ==
    [m \in DOMAIN members |-> UNION {Block(members, counts, topic, m) : topic \in DOMAIN counts}]

-----------------------------------------------------------------------------
(* assignRoundRobin *)

\* The vector `all` after the first i of the topics: partitions counting up.
ListedAfter(topics, counts) ==
    LET listed[i \in 0..Len(topics)] ==
            IF i = 0 THEN <<>>
            ELSE listed[i - 1] \o [p \in 1..counts[topics[i]] |-> <<topics[i], p - 1>>]
    IN  listed

\* Every partition of every topic, topics ascending.
AllPartitions(counts) ==
    LET topics == InOrder(DOMAIN counts)
    IN  ListedAfter(topics, counts)[Len(topics)]

\* Deals tp to the first interested member from position next on, circularly,
\* and moves next past it; nobody interested leaves it undealt.
Deal(members, order, state, tp) ==
    LET n     == Len(order)
        at(k) == order[((state.next + k) % n) + 1]
        wants == {k \in 0..(n - 1) : tp[1] \in members[at(k)]}
    IN  IF wants = {} THEN state
        ELSE LET tried == CHOOSE k \in wants : \A j \in wants : k <= j
             IN  [next       |-> (state.next + tried + 1) % n,
                  assignment |-> [state.assignment EXCEPT ![at(tried)] = @ \cup {tp}]]

\* `next` and the assignment after the first i of the partitions were dealt.
DealtAfter(members, order, all) ==
    LET dealt[i \in 0..Len(all)] ==
            IF i = 0 THEN [next |-> 0, assignment |-> [m \in DOMAIN members |-> {}]]
            ELSE Deal(members, order, dealt[i - 1], all[i])
    IN  dealt

AssignRoundRobin(members, counts) ==
    LET order == InOrder(DOMAIN members)
        all   == AllPartitions(counts)
    IN  IF order = <<>> THEN [m \in DOMAIN members |-> {}]
        ELSE DealtAfter(members, order, all)[Len(all)].assignment

-----------------------------------------------------------------------------
(* syncAsLeader(): the strategy the leader was started with decides. *)
Assign(strategy, members, counts) ==
    IF strategy = "roundrobin" THEN AssignRoundRobin(members, counts)
    ELSE AssignRange(members, counts)

-----------------------------------------------------------------------------
(* What an assignment should be. *)

Wanting(members, topic) == {m \in DOMAIN members : topic \in members[m]}

Owners(result, tp) == {m \in DOMAIN result : tp \in result[m]}

\* The partitions of a topic that a member got.
Mine(result, counts, m, topic) == {p \in 0..(counts[topic] - 1) : <<topic, p>> \in result[m]}

\* Every partition of a counted topic that somebody wants has exactly one owner,
\* which asked for the topic, and nothing else is handed out.
EveryPartitionOnce(result, members, counts) ==
    /\ DOMAIN result = DOMAIN members
    /\ \A topic \in DOMAIN counts : \A p \in 0..(counts[topic] - 1) :
            Wanting(members, topic) # {} => Cardinality(Owners(result, <<topic, p>>)) = 1
    /\ \A m \in DOMAIN result : \A tp \in result[m] :
            \E topic \in DOMAIN counts \cap members[m] : \E p \in 0..(counts[topic] - 1) :
                tp = <<topic, p>>

\* assignRange: of two members that want a topic the earlier one's partitions
\* come first, and it holds as many as the later one or one more.
RangeIsContiguous(result, members, counts) ==
    \A topic \in DOMAIN counts : \A m, n \in Wanting(members, topic) : m < n =>
        /\ \A p \in Mine(result, counts, m, topic), q \in Mine(result, counts, n, topic) : p < q
        /\ Cardinality(Mine(result, counts, m, topic))
                - Cardinality(Mine(result, counts, n, topic)) \in {0, 1}

\* assignRoundRobin: when everyone wants everything no two members' totals
\* differ by more than one, over all topics together.
RoundRobinIsEven(result, members, counts) ==
    (\A topic \in DOMAIN counts : Wanting(members, topic) = DOMAIN members) =>
        \A m, n \in DOMAIN result : Cardinality(result[m]) - Cardinality(result[n]) \in {-1, 0, 1}
=============================================================================
