-------------------------- MODULE TopicRegistryProofs --------------------------
(***************************************************************************)
(* Proofs about TopicRegistry, for any topics, clients, configurations and *)
(* numbers of partitions, however often the process dies.                  *)
(***************************************************************************)
EXTENDS TopicRegistry, FiniteSetTheorems, WellFoundedInduction, TLAPS

Configs == Asked \cup {Defaults, Neutered}

Request == [topic : Topics, count : 1 .. MaxPartitions, config : Asked, next : Nat]

Directory == [segment : BOOLEAN, meta : Configs \cup {NoMeta}, records : BOOLEAN]

TypeOK ==
    /\ DOMAIN dirs \subseteq (Topics \cup {Offsets}) \X Nat
    /\ \A tp \in DOMAIN dirs : dirs[tp] \in Directory
    /\ phase \in {"down", "loading", "ensuring", "up", "refused"}
    /\ DOMAIN logs \subseteq DOMAIN dirs
    /\ requests \in [Clients -> Request \cup {NoRequest}]
    /\ DOMAIN answered \subseteq Topics
    /\ \A t \in DOMAIN answered :
            answered[t] \in [count : 1 .. MaxPartitions, config : Asked]

\* With every partition of a topic all earlier ones are there.
Closed(S) == \A tp \in S : \A p \in 0 .. tp[2] : <<tp[1], p>> \in S

\* All directories that loadAll() found are hosted.
Loaded == phase \in {"ensuring", "up"}

\* What is in a directory was written in the order of Log::create(): a record or
\* a partition.meta only after the segment, a record only after partition.meta.
DirsAreInOrder ==
    \A tp \in DOMAIN dirs :
        /\ dirs[tp].records => dirs[tp].meta # NoMeta
        /\ dirs[tp].meta # NoMeta => dirs[tp].segment

\* A hosted partition has its directory, with the configuration it is served with.
HostedIsStored ==
    \A tp \in DOMAIN logs : dirs[tp].meta = logs[tp] /\ logs[tp] # NoMeta

\* Directories are numbered without gaps, hosted partitions too once all are
\* loaded, and nothing is hosted by a process that is not there.
NumberedInv ==
    /\ Closed(DOMAIN dirs)
    /\ Loaded => Closed(DOMAIN logs)
    /\ phase = "down" => DOMAIN logs = {}

\* What a client has been told to be there is.
AnsweredInv ==
    \A t \in DOMAIN answered : \A p \in 0 .. (answered[t].count - 1) :
        /\ <<t, p>> \in DOMAIN dirs
        /\ dirs[<<t, p>>].meta = answered[t].config
        /\ Loaded => <<t, p>> \in DOMAIN logs

\* A request is only under way while the broker serves, and the partitions it has
\* got past are hosted with its configuration.
RequestsInv ==
    \A c \in Clients : requests[c] # NoRequest =>
        /\ phase = "up"
        /\ requests[c].next <= requests[c].count
        /\ \A p \in 0 .. (requests[c].next - 1) :
                /\ <<requests[c].topic, p>> \in DOMAIN logs
                /\ logs[<<requests[c].topic, p>>] = requests[c].config

LastOffsets == <<Offsets, OffsetsPartitions - 1>>

\* __offsets: every directory but the last is Neutered; while it is made the last
\* one is as well; a broker serves only with all of it.
OffsetsInv ==
    /\ \A tp \in OffsetsDirs :
            /\ tp[2] < OffsetsPartitions
            /\ <<Offsets, tp[2] + 1>> \in DOMAIN dirs => dirs[tp].meta = Neutered
    /\ Loaded => OffsetsDirs \subseteq DOMAIN logs
    /\ phase = "ensuring" =>
            /\ \A tp \in OffsetsDirs : dirs[tp].meta = Neutered
            /\ LastOffsets \notin DOMAIN dirs
    /\ phase = "up" => LastOffsets \in DOMAIN dirs
    /\ phase = "refused" => OffsetsDirs # {} /\ LastOffsets \notin DOMAIN dirs

IInv ==
    /\ TypeOK /\ DirsAreInOrder /\ HostedIsStored /\ NumberedInv
    /\ AnsweredInv /\ RequestsInv /\ OffsetsInv

-----------------------------------------------------------------------------
\* Lemmas about the operators of the model.

\* With() adds or replaces one entry of a function and leaves the others.
LEMMA WithIs ==
    ASSUME NEW f, NEW k, NEW v
    PROVE  /\ DOMAIN With(f, k, v) = DOMAIN f \cup {k}
           /\ With(f, k, v)[k] = v
           /\ \A x \in DOMAIN f : x # k => With(f, k, v)[x] = f[x]
BY DEF With

\* A property some natural number has, it has for a least one: what "the first
\* partition that is not there" rests on.
LEMMA LeastExists ==
    ASSUME NEW S \in SUBSET Nat, S # {}
    PROVE  \E n \in S : \A m \in S : n <= m
<1>1. PICK n \in S : \A m \in S : ~ (<<m, n>> \in OpToRel(<, Nat))
    BY NatLessThanWellFounded, WFMin, Zenon
<1>2. \A m \in S : ~ (m < n)
    BY <1>1 DEF OpToRel
<1> QED
    BY <1>2

\* How many partitions of topic t are in S.
CountIn(S, t) == Cardinality({tp \in S : tp[1] = t})

\* The partitions of one topic in a gapless, bounded set of partitions are
\* numbered from zero up to their own number, so that this number is the next
\* one: what ensureOffsetsTopic() continues from.
LEMMA CountIsNext ==
    ASSUME NEW S, NEW t, NEW bound \in Nat, Closed(S),
           \A tp \in S : tp = <<tp[1], tp[2]>> /\ tp[2] \in Nat,
           \A tp \in S : tp[1] = t => tp[2] < bound
    PROVE  /\ CountIn(S, t) \in 0 .. bound
           /\ \A p \in Nat : <<t, p>> \in S <=> p < CountIn(S, t)
<1> DEFINE T == {tp \in S : tp[1] = t}
           Free == {p \in Nat : <<t, p>> \notin S}
<1>1. bound \in Free
    <2>1. ASSUME <<t, bound>> \in S PROVE FALSE
        BY <2>1
    <2> QED
        BY <2>1
<1>2. PICK n \in Free : \A m \in Free : n <= m
    <2>1. Free \in SUBSET Nat /\ Free # {}
        BY <1>1
    <2> HIDE DEF Free
    <2> QED
        BY <2>1, LeastExists
<1>3. n \in 0 .. bound
    BY <1>1, <1>2
<1>4. \A p \in Nat : <<t, p>> \in S <=> p < n
    <2>1. ASSUME NEW p \in Nat, p < n PROVE <<t, p>> \in S
        BY <2>1, <1>2
    <2>2. ASSUME NEW p \in Nat, <<t, p>> \in S, ~(p < n) PROVE FALSE
        <3>1. n \in 0 .. <<t, p>>[2]
            BY <2>2, <1>2
        <3>2. <<t, n>> \in S
            BY <3>1, <2>2 DEF Closed
        <3> QED
            BY <3>2, <1>2
    <2> QED
        BY <2>1, <2>2
<1>5. T = {t} \X (0 .. (n - 1))
    <2>1. ASSUME NEW x \in T PROVE x \in {t} \X (0 .. (n - 1))
        <3>1. x = <<t, x[2]>> /\ x[2] \in Nat /\ <<t, x[2]>> \in S
            BY <2>1
        <3>2. x[2] < n
            BY <3>1, <1>4
        <3> QED
            BY <3>1, <3>2, <1>2
    <2>2. ASSUME NEW x \in {t} \X (0 .. (n - 1)) PROVE x \in T
        <3>1. PICK p \in 0 .. (n - 1) : x = <<t, p>>
            BY <2>2
        <3>2. p \in Nat /\ p < n
            BY <3>1, <1>2
        <3> QED
            BY <3>1, <3>2, <1>4
    <2> HIDE DEF T
    <2> QED
        BY <2>1, <2>2
<1>6. Cardinality(T) = n
    <2>1. IsFiniteSet({t}) /\ Cardinality({t}) = 1
        BY FS_Singleton
    <2>2. IsFiniteSet(0 .. (n - 1)) /\ Cardinality(0 .. (n - 1)) = n
        <3>1. 0 \in Int /\ n - 1 \in Int /\ n \in Nat
            BY <1>2
        <3>2. /\ IsFiniteSet(0 .. (n - 1))
              /\ Cardinality(0 .. (n - 1)) = IF 0 > n - 1 THEN 0 ELSE (n - 1) - 0 + 1
            BY <3>1, FS_Interval, Zenon
        <3> QED
            BY <3>1, <3>2
    <2>3. Cardinality({t} \X (0 .. (n - 1)))
              = Cardinality({t}) * Cardinality(0 .. (n - 1))
        BY <2>1, <2>2, FS_Product, Zenon
    <2>4. n \in Nat /\ 1 * n = n
        BY <1>2
    <2> HIDE DEF T
    <2> QED
        BY <2>1, <2>2, <2>3, <2>4, <1>5
<1> QED
    BY <1>3, <1>4, <1>6 DEF CountIn

\* What createPartition() may create has never had a configuration: it is not
\* hosted, and its directory has no segment.
LEMMA OnlyFreshIsCreated ==
    ASSUME DirsAreInOrder, NEW tp, Creatable(tp)
    PROVE  tp \notin DOMAIN logs /\ (tp \in DOMAIN dirs => dirs[tp].meta = NoMeta)
BY DEF DirsAreInOrder, Creatable

\* What Log::create() leaves in a directory, finished or not, is in its order.
LEMMA HalvesAreInOrder ==
    ASSUME NEW tp, NEW config \in Configs, NEW dir \in Halves(tp, config)
    PROVE  dir \in Directory /\ ~dir.records /\ (dir.meta # NoMeta => dir.segment)
<1>1. /\ config \in Configs \cup {NoMeta} /\ NoMeta \in Configs \cup {NoMeta}
      /\ TRUE \in BOOLEAN /\ FALSE \in BOOLEAN
    OBVIOUS
<1>2. \/ dir = [segment |-> FALSE, meta |-> NoMeta, records |-> FALSE]
      \/ dir = [segment |-> TRUE, meta |-> NoMeta, records |-> FALSE]
      \/ dir = [segment |-> TRUE, meta |-> config, records |-> FALSE]
    BY DEF Halves, Fresh
<1>3. dir \in [segment : BOOLEAN, meta : Configs \cup {NoMeta}, records : BOOLEAN]
    <2> HIDE DEF Configs
    <2>1. \A s \in BOOLEAN, m \in Configs \cup {NoMeta}, r \in BOOLEAN :
              [segment |-> s, meta |-> m, records |-> r]
                  \in [segment : BOOLEAN, meta : Configs \cup {NoMeta}, records : BOOLEAN]
        BY Zenon
    <2> QED
        BY <1>1, <1>2, <2>1, Zenon
<1>4. ~dir.records /\ (dir.meta # NoMeta => dir.segment)
    BY <1>2
<1> QED
    BY <1>3, <1>4 DEF Directory

\* A new directory, or one without a segment, takes nothing away: what the others
\* hold stays, and so does every configuration that was ever stored.
LEMMA CreationOnlyAdds ==
    ASSUME TypeOK, DirsAreInOrder, Closed(DOMAIN dirs),
           NEW tp \in (Topics \cup {Offsets}) \X Nat, Creatable(tp),
           NEW dir \in Directory, ~dir.records, dir.meta # NoMeta => dir.segment,
           \A p \in 0 .. (tp[2] - 1) : <<tp[1], p>> \in DOMAIN dirs,
           dirs' = With(dirs, tp, dir)
    PROVE  /\ DOMAIN dirs' = DOMAIN dirs \cup {tp}
           /\ dirs'[tp] = dir
           /\ \A x \in DOMAIN dirs : x # tp => dirs'[x] = dirs[x]
           /\ \A x \in DOMAIN dirs : dirs[x].meta # NoMeta => x # tp
           /\ DOMAIN dirs' \subseteq (Topics \cup {Offsets}) \X Nat
           /\ \A x \in DOMAIN dirs' : dirs'[x] \in Directory
           /\ DirsAreInOrder'
           /\ Closed(DOMAIN dirs)'
<1>1. /\ DOMAIN dirs' = DOMAIN dirs \cup {tp}
      /\ dirs'[tp] = dir
      /\ \A x \in DOMAIN dirs : x # tp => dirs'[x] = dirs[x]
    BY DEF With
<1>2. \A x \in DOMAIN dirs : dirs[x].meta # NoMeta => x # tp
    BY OnlyFreshIsCreated
<1>3. /\ DOMAIN dirs' \subseteq (Topics \cup {Offsets}) \X Nat
      /\ \A x \in DOMAIN dirs' : dirs'[x] \in Directory
    <2>1. ASSUME NEW x \in DOMAIN dirs' PROVE x = tp \/ x \in DOMAIN dirs
        BY <1>1
    <2>2. tp \in (Topics \cup {Offsets}) \X Nat
        OBVIOUS
    <2>3. DOMAIN dirs \subseteq (Topics \cup {Offsets}) \X Nat
        BY DEF TypeOK
    <2>4. \A x \in DOMAIN dirs : dirs[x] \in Directory
        BY DEF TypeOK
    <2>5. ASSUME NEW x \in DOMAIN dirs' PROVE dirs'[x] \in Directory
        BY <1>1, <2>1, <2>4
    <2> HIDE DEF Directory
    <2> QED
        BY <1>1, <2>2, <2>3, <2>5
<1>4. DirsAreInOrder'
    BY <1>1 DEF DirsAreInOrder
<1>5. Closed(DOMAIN dirs)'
    <2>1. SUFFICES ASSUME NEW x \in DOMAIN dirs', NEW p \in 0 .. x[2]
                   PROVE  <<x[1], p>> \in DOMAIN dirs \cup {tp}
        BY <1>1 DEF Closed
    <2>2. CASE x \in DOMAIN dirs
        BY <2>2 DEF Closed
    <2>3. CASE x = tp
        <3>1. tp = <<tp[1], tp[2]>> /\ tp[2] \in Nat
            OBVIOUS
        <3>2. p = tp[2] \/ p \in 0 .. (tp[2] - 1)
            BY <2>3, <3>1
        <3> QED
            BY <2>3, <3>1, <3>2
    <2> QED
        BY <1>1, <2>2, <2>3
<1> QED
    BY <1>1, <1>2, <1>3, <1>4, <1>5

\* While all directories are loaded, NextOffsets is the first partition of
\* __offsets that is not there.
LEMMA NextOffsetsIsNext ==
    ASSUME IInv, Loaded \/ (phase = "loading" /\ DOMAIN dirs = DOMAIN logs)
    PROVE  LET n == Cardinality(PartitionsOf(Offsets))
           IN  /\ n \in 0 .. OffsetsPartitions
               /\ NextOffsets = <<Offsets, n>>
               /\ \A p \in Nat : <<Offsets, p>> \in DOMAIN logs <=> p < n
               /\ \A p \in Nat : <<Offsets, p>> \in DOMAIN dirs <=> p < n
<1> USE TopicRegistryAssumption
<1>1. Closed(DOMAIN logs)
    BY DEF IInv, NumberedInv, Loaded
<1>2. \A tp \in DOMAIN logs : tp = <<tp[1], tp[2]>> /\ tp[2] \in Nat
    BY DEF IInv, TypeOK
<1>3. \A tp \in DOMAIN logs : tp[1] = Offsets => tp[2] < OffsetsPartitions
    BY DEF IInv, TypeOK, OffsetsInv, OffsetsDirs
<1>4. LET n == CountIn(DOMAIN logs, Offsets)
      IN  /\ n \in 0 .. OffsetsPartitions
          /\ \A p \in Nat : <<Offsets, p>> \in DOMAIN logs <=> p < n
    <2>1. OffsetsPartitions \in Nat
        OBVIOUS
    <2> QED
        BY <1>1, <1>2, <1>3, <2>1, CountIsNext
<1>5. \A p \in Nat : <<Offsets, p>> \in DOMAIN dirs <=> <<Offsets, p>> \in DOMAIN logs
    BY DEF IInv, TypeOK, OffsetsInv, OffsetsDirs, Loaded
<1> QED
    BY <1>4, <1>5 DEF NextOffsets, PartitionsOf, CountIn

-----------------------------------------------------------------------------
\* The invariant is kept by each action.

\* A partition is made and registered: what a client's request and the creation
\* of __offsets have in common.
LEMMA CreatedKeeps ==
    ASSUME IInv, NEW tp \in (Topics \cup {Offsets}) \X Nat, NEW config \in Configs,
           Created(tp, config), Loaded, Loaded' , UNCHANGED answered,
           \A p \in 0 .. (tp[2] - 1) : <<tp[1], p>> \in DOMAIN logs
    PROVE  /\ DOMAIN dirs' = DOMAIN dirs \cup {tp}
           /\ \A x \in DOMAIN dirs : x # tp => dirs'[x] = dirs[x]
           /\ dirs'[tp].meta = config
           /\ DOMAIN logs' = DOMAIN logs \cup {tp}
           /\ logs'[tp] = config
           /\ \A x \in DOMAIN logs : x # tp /\ logs'[x] = logs[x]
           /\ DOMAIN dirs' \subseteq (Topics \cup {Offsets}) \X Nat
           /\ \A x \in DOMAIN dirs' : dirs'[x] \in Directory
           /\ DOMAIN logs' \subseteq DOMAIN dirs'
           /\ DirsAreInOrder' /\ HostedIsStored' /\ NumberedInv' /\ AnsweredInv'
<1>1. config # NoMeta
    BY TopicRegistryAssumption DEF Configs
<1>2. /\ Creatable(tp)
      /\ dirs' = With(dirs, tp, Fresh(config))
      /\ logs' = With(logs, tp, config)
    BY DEF Created
<1>3. Fresh(config) \in Halves(tp, config)
    BY DEF Halves
<1>4. /\ Fresh(config) \in Directory
      /\ ~Fresh(config).records
      /\ Fresh(config).meta # NoMeta => Fresh(config).segment
    BY <1>3, HalvesAreInOrder, Zenon
<1>5. \A p \in 0 .. (tp[2] - 1) : <<tp[1], p>> \in DOMAIN dirs
    BY DEF IInv, TypeOK
<1>6. /\ DOMAIN dirs' = DOMAIN dirs \cup {tp}
      /\ dirs'[tp] = Fresh(config)
      /\ \A x \in DOMAIN dirs : x # tp => dirs'[x] = dirs[x]
      /\ \A x \in DOMAIN dirs : dirs[x].meta # NoMeta => x # tp
      /\ DOMAIN dirs' \subseteq (Topics \cup {Offsets}) \X Nat
      /\ \A x \in DOMAIN dirs' : dirs'[x] \in Directory
      /\ DirsAreInOrder'
      /\ Closed(DOMAIN dirs)'
    <2>1. TypeOK /\ DirsAreInOrder /\ Closed(DOMAIN dirs)
        BY DEF IInv, NumberedInv
    <2> QED
        BY <2>1, <1>2, <1>4, <1>5, CreationOnlyAdds
<1>7. /\ DOMAIN logs' = DOMAIN logs \cup {tp}
      /\ logs'[tp] = config
      /\ \A x \in DOMAIN logs : x # tp /\ logs'[x] = logs[x]
    BY <1>2 DEF With, Creatable
<1>8. dirs'[tp].meta = config
    BY <1>6 DEF Fresh
<1>9. DOMAIN logs' \subseteq DOMAIN dirs'
    BY <1>6, <1>7 DEF IInv, TypeOK
<1>10. HostedIsStored'
    BY <1>1, <1>6, <1>7, <1>8 DEF IInv, TypeOK, HostedIsStored
<1>11. Closed(DOMAIN logs)'
    <2>1. SUFFICES ASSUME NEW x \in DOMAIN logs \cup {tp}, NEW p \in 0 .. x[2]
                   PROVE  <<x[1], p>> \in DOMAIN logs \cup {tp}
        BY <1>7 DEF Closed
    <2>2. CASE x \in DOMAIN logs
        BY <2>2 DEF Closed, IInv, NumberedInv
    <2>3. CASE x = tp
        <3>1. tp = <<tp[1], tp[2]>> /\ tp[2] \in Nat
            OBVIOUS
        <3>2. p = tp[2] \/ p \in 0 .. (tp[2] - 1)
            BY <2>3, <3>1
        <3> QED
            BY <2>3, <3>1, <3>2
    <2> QED
        BY <2>2, <2>3
<1>12. NumberedInv'
    <2>1. phase' # "down"
        BY DEF Loaded
    <2> QED
        BY <1>6, <1>11, <2>1 DEF NumberedInv
<1>13. AnsweredInv'
    <2>1. SUFFICES ASSUME NEW t \in DOMAIN answered, NEW p \in 0 .. (answered[t].count - 1)
                   PROVE  /\ <<t, p>> \in DOMAIN dirs'
                          /\ dirs'[<<t, p>>].meta = answered[t].config
                          /\ <<t, p>> \in DOMAIN logs'
        BY DEF AnsweredInv
    <2>2. /\ <<t, p>> \in DOMAIN dirs
          /\ dirs[<<t, p>>].meta = answered[t].config
          /\ <<t, p>> \in DOMAIN logs
        BY DEF IInv, AnsweredInv
    <2> QED
        BY <2>2, <1>6, <1>7
<1> QED
    BY <1>6, <1>7, <1>8, <1>9, <1>10, <1>12, <1>13

\* CreateTopic makes its next partition.
LEMMA CreateNextKeeps ==
    ASSUME IInv, NEW c \in Clients, CreateNext(c)
    PROVE  IInv'
<1> USE TopicRegistryAssumption
<1> DEFINE tp == NextTP(c)
           config == requests[c].config
<1>1. /\ requests[c] \in Request
      /\ requests[c] # NoRequest
      /\ requests[c].next < requests[c].count
      /\ phase = "up" /\ phase' = "up" /\ answered' = answered
      /\ requests' = [requests EXCEPT ![c].next = @ + 1]
      /\ Created(tp, config)
    BY DEF IInv, TypeOK, RequestsInv, CreateNext
<1>2. /\ tp = <<requests[c].topic, requests[c].next>>
      /\ tp \in (Topics \cup {Offsets}) \X Nat
      /\ tp[1] # Offsets
      /\ config \in Asked /\ config \in Configs
    BY <1>1 DEF Request, NextTP, Configs
<1>3. \A p \in 0 .. (tp[2] - 1) :
          <<tp[1], p>> \in DOMAIN logs /\ logs[<<tp[1], p>>] = config
    BY <1>1, <1>2 DEF IInv, RequestsInv
<1>4. /\ DOMAIN dirs' = DOMAIN dirs \cup {tp}
      /\ \A x \in DOMAIN dirs : x # tp => dirs'[x] = dirs[x]
      /\ dirs'[tp].meta = config
      /\ DOMAIN logs' = DOMAIN logs \cup {tp}
      /\ logs'[tp] = config
      /\ \A x \in DOMAIN logs : x # tp /\ logs'[x] = logs[x]
      /\ DOMAIN dirs' \subseteq (Topics \cup {Offsets}) \X Nat
      /\ \A x \in DOMAIN dirs' : dirs'[x] \in Directory
      /\ DOMAIN logs' \subseteq DOMAIN dirs'
      /\ DirsAreInOrder' /\ HostedIsStored' /\ NumberedInv' /\ AnsweredInv'
    <2> HIDE DEF tp, config
    <2> QED
        BY <1>1, <1>2, <1>3, CreatedKeeps DEF Loaded
<1>5. requests' \in [Clients -> Request \cup {NoRequest}]
    <2>1. [requests[c] EXCEPT !.next = @ + 1] \in Request
        BY <1>1 DEF Request
    <2> QED
        BY <1>1, <2>1 DEF IInv, TypeOK
<1>6. TypeOK'
    BY <1>1, <1>4, <1>5 DEF IInv, TypeOK
<1>7. RequestsInv'
    <2>1. SUFFICES ASSUME NEW d \in Clients, requests'[d] # NoRequest
                   PROVE  /\ requests'[d].next <= requests'[d].count
                          /\ \A p \in 0 .. (requests'[d].next - 1) :
                                /\ <<requests'[d].topic, p>> \in DOMAIN logs'
                                /\ logs'[<<requests'[d].topic, p>>] = requests'[d].config
        BY <1>1 DEF RequestsInv
    <2>2. CASE d = c
        <3>1. /\ requests'[d].topic = requests[c].topic
              /\ requests'[d].config = requests[c].config
              /\ requests'[d].count = requests[c].count
              /\ requests'[d].next = requests[c].next + 1
            BY <1>1, <2>2 DEF IInv, TypeOK, Request
        <3>2. requests[c].next + 1 <= requests[c].count
            BY <1>1 DEF Request
        <3>3. ASSUME NEW p \in 0 .. requests[c].next
              PROVE  /\ <<requests[c].topic, p>> \in DOMAIN logs'
                     /\ logs'[<<requests[c].topic, p>>] = requests[c].config
            <4>1. p = requests[c].next \/ p \in 0 .. (requests[c].next - 1)
                BY <1>1 DEF Request
            <4>2. CASE p = requests[c].next
                BY <4>2, <1>2, <1>4
            <4>3. CASE p \in 0 .. (requests[c].next - 1)
                BY <4>3, <1>1, <1>2, <1>3, <1>4
            <4> QED
                BY <4>1, <4>2, <4>3
        <3>4. requests'[d].next - 1 = requests[c].next
            BY <1>1, <3>1 DEF Request
        <3>5. 0 .. (requests'[d].next - 1) = 0 .. requests[c].next
            BY <3>4
        <3> HIDE DEF tp, config
        <3> QED
            BY <3>1, <3>2, <3>3, <3>5, Zenon
    <2>3. CASE d # c
        <3>1. requests'[d] = requests[d]
            BY <2>3, <1>1 DEF IInv, TypeOK
        <3>2. /\ requests[d].next <= requests[d].count
              /\ \A p \in 0 .. (requests[d].next - 1) :
                    /\ <<requests[d].topic, p>> \in DOMAIN logs
                    /\ logs[<<requests[d].topic, p>>] = requests[d].config
            <4>1. RequestsInv
                BY DEF IInv
            <4> QED
                BY <3>1, <2>1, <4>1 DEF RequestsInv
        <3> HIDE DEF tp, config
        <3> QED
            BY <3>1, <3>2, <1>4
    <2> QED
        BY <2>2, <2>3
<1>8. OffsetsInv'
    <2>1. /\ \A x \in OffsetsDirs' : x \in OffsetsDirs /\ dirs'[x] = dirs[x]
          /\ \A x : x[1] = Offsets => (x \in DOMAIN dirs' <=> x \in DOMAIN dirs)
        BY <1>2, <1>4 DEF OffsetsDirs
    <2> QED
        BY <1>1, <1>4, <2>1 DEF IInv, OffsetsInv, OffsetsDirs, Loaded, LastOffsets
<1> QED
    BY <1>4, <1>6, <1>7, <1>8 DEF IInv

\* ensureOffsetsTopic() makes the next partition of __offsets.
LEMMA EnsureOffsetsKeeps ==
    ASSUME IInv, EnsureOffsets
    PROVE  IInv'
<1> USE TopicRegistryAssumption
<1> DEFINE n == Cardinality(PartitionsOf(Offsets))
           tp == <<Offsets, n>>
<1>1. /\ phase = "ensuring" /\ Loaded
      /\ Created(NextOffsets, Neutered)
      /\ phase' = IF NextOffsets[2] + 1 = OffsetsPartitions THEN "up" ELSE phase
      /\ requests' = requests /\ answered' = answered
      /\ LastOffsets \notin DOMAIN dirs
    BY DEF EnsureOffsets, Loaded, IInv, OffsetsInv
<1>2. /\ n \in 0 .. OffsetsPartitions
      /\ NextOffsets = tp
      /\ \A p \in Nat : <<Offsets, p>> \in DOMAIN logs <=> p < n
      /\ \A p \in Nat : <<Offsets, p>> \in DOMAIN dirs <=> p < n
    BY <1>1, NextOffsetsIsNext
<1> HIDE DEF n
<1>3. n < OffsetsPartitions
    BY <1>1, <1>2 DEF LastOffsets
<1>4. phase' = IF n = OffsetsPartitions - 1 THEN "up" ELSE "ensuring"
    BY <1>1, <1>2
<1>5. /\ DOMAIN dirs' = DOMAIN dirs \cup {tp}
      /\ \A x \in DOMAIN dirs : x # tp => dirs'[x] = dirs[x]
      /\ dirs'[tp].meta = Neutered
      /\ DOMAIN logs' = DOMAIN logs \cup {tp}
      /\ logs'[tp] = Neutered
      /\ \A x \in DOMAIN logs : x # tp /\ logs'[x] = logs[x]
      /\ DOMAIN dirs' \subseteq (Topics \cup {Offsets}) \X Nat
      /\ \A x \in DOMAIN dirs' : dirs'[x] \in Directory
      /\ DOMAIN logs' \subseteq DOMAIN dirs'
      /\ DirsAreInOrder' /\ HostedIsStored' /\ NumberedInv' /\ AnsweredInv'
    <2>1. tp \in (Topics \cup {Offsets}) \X Nat /\ Neutered \in Configs
        BY <1>2 DEF Configs
    <2>2. \A p \in 0 .. (tp[2] - 1) : <<tp[1], p>> \in DOMAIN logs
        BY <1>2
    <2>3. Loaded'
        BY <1>4 DEF Loaded
    <2>4. Created(tp, Neutered)
        BY <1>1, <1>2
    <2> HIDE DEF tp
    <2> QED
        BY <1>1, <2>1, <2>2, <2>3, <2>4, CreatedKeeps
<1>6. TypeOK'
    BY <1>1, <1>4, <1>5 DEF IInv, TypeOK
<1>7. RequestsInv'
    <2>1. \A c \in Clients : requests[c] = NoRequest
        BY <1>1 DEF IInv, RequestsInv
    <2> QED
        BY <1>1, <2>1 DEF RequestsInv
<1>8. OffsetsInv'
    <2>1. /\ n \in Nat /\ OffsetsPartitions \in Nat
          /\ tp[1] = Offsets /\ tp[2] = n
        BY <1>2
    <2>2. OffsetsDirs' = OffsetsDirs \cup {tp}
        BY <1>5, <2>1 DEF OffsetsDirs
    <2>3. ASSUME NEW x \in OffsetsDirs'
          PROVE  dirs'[x].meta = Neutered /\ x[2] < OffsetsPartitions /\ x \in DOMAIN logs'
        <3>1. CASE x = tp
            BY <3>1, <1>5, <1>3, <2>1
        <3>2. CASE x \in OffsetsDirs /\ x # tp
            <4>1. /\ dirs[x].meta = Neutered /\ x[2] < OffsetsPartitions
                  /\ x \in DOMAIN logs /\ x \in DOMAIN dirs
                BY <3>2, <1>1 DEF IInv, OffsetsInv, OffsetsDirs
            <4> QED
                BY <4>1, <3>2, <1>5
        <3> QED
            BY <2>2, <3>1, <3>2
    <2>4. LastOffsets \in DOMAIN dirs' <=> n = OffsetsPartitions - 1
        BY <1>1, <1>5, <2>1 DEF LastOffsets
    <2> QED
        BY <1>4, <2>3, <2>4 DEF OffsetsInv, LastOffsets
<1> QED
    BY <1>5, <1>6, <1>7, <1>8 DEF IInv

\* A request ends, whatever becomes of it: the others are not concerned.
LEMMA RequestEnds ==
    ASSUME IInv, NEW c \in Clients, requests' = [requests EXCEPT ![c] = NoRequest],
           phase' = phase, logs' = logs
    PROVE  RequestsInv' /\ requests' \in [Clients -> Request \cup {NoRequest}]
<1>1. \A d \in Clients : requests'[d] = IF d = c THEN NoRequest ELSE requests[d]
    BY DEF IInv, TypeOK
<1>2. requests' \in [Clients -> Request \cup {NoRequest}]
    BY DEF IInv, TypeOK
<1>3. RequestsInv'
    BY <1>1 DEF IInv, RequestsInv
<1> QED
    BY <1>2, <1>3

\* The creation of a partition of a topic breaks off: a directory may be left, and
\* nothing else has changed yet.
LEMMA HalfCreatedKeepsDirs ==
    ASSUME IInv, NEW tp \in (Topics \cup {Offsets}) \X Nat, NEW config \in Configs,
           HalfCreated(tp, config),
           \A p \in 0 .. (tp[2] - 1) : <<tp[1], p>> \in DOMAIN logs
    PROVE  /\ DOMAIN dirs' = DOMAIN dirs \cup {tp}
           /\ \A x \in DOMAIN dirs : x # tp => dirs'[x] = dirs[x]
           /\ \A x \in DOMAIN dirs : dirs[x].meta # NoMeta => x # tp
           /\ tp \notin DOMAIN logs
           /\ DOMAIN dirs' \subseteq (Topics \cup {Offsets}) \X Nat
           /\ \A x \in DOMAIN dirs' : dirs'[x] \in Directory
           /\ DirsAreInOrder'
           /\ Closed(DOMAIN dirs)'
           /\ \A t \in DOMAIN answered : \A p \in 0 .. (answered[t].count - 1) :
                 /\ <<t, p>> \in DOMAIN dirs'
                 /\ dirs'[<<t, p>>].meta = answered[t].config
<1>1. Creatable(tp)
    BY DEF HalfCreated
<1>2. PICK half \in Halves(tp, config) : dirs' = With(dirs, tp, half)
    BY DEF HalfCreated
<1>3. /\ half \in Directory
      /\ ~half.records
      /\ half.meta # NoMeta => half.segment
    BY HalvesAreInOrder, Zenon
<1>4. \A p \in 0 .. (tp[2] - 1) : <<tp[1], p>> \in DOMAIN dirs
    BY DEF IInv, TypeOK
<1>5. TypeOK /\ DirsAreInOrder /\ Closed(DOMAIN dirs)
    BY DEF IInv, NumberedInv
<1>6. /\ DOMAIN dirs' = DOMAIN dirs \cup {tp}
      /\ \A x \in DOMAIN dirs : x # tp => dirs'[x] = dirs[x]
      /\ \A x \in DOMAIN dirs : dirs[x].meta # NoMeta => x # tp
      /\ DOMAIN dirs' \subseteq (Topics \cup {Offsets}) \X Nat
      /\ \A x \in DOMAIN dirs' : dirs'[x] \in Directory
      /\ DirsAreInOrder'
      /\ Closed(DOMAIN dirs)'
    BY <1>1, <1>2, <1>3, <1>4, <1>5, CreationOnlyAdds
<1>7. ASSUME NEW t \in DOMAIN answered, NEW p \in 0 .. (answered[t].count - 1)
      PROVE  /\ <<t, p>> \in DOMAIN dirs'
             /\ dirs'[<<t, p>>].meta = answered[t].config
    <2>1. /\ <<t, p>> \in DOMAIN dirs
          /\ dirs[<<t, p>>].meta = answered[t].config
        BY DEF IInv, AnsweredInv
    <2>2. answered[t].config # NoMeta
        BY TopicRegistryAssumption DEF IInv, TypeOK
    <2> QED
        BY <2>1, <2>2, <1>6
<1> QED
    BY <1>1, <1>6, <1>7 DEF Creatable

\* CreateTopic fails over a partition, and answers Unknown.
LEMMA CreateFailsKeeps ==
    ASSUME IInv, NEW c \in Clients, CreateFails(c)
    PROVE  IInv'
<1> USE TopicRegistryAssumption
<1> DEFINE tp == NextTP(c)
           config == requests[c].config
<1>1. /\ requests[c] \in Request
      /\ requests[c] # NoRequest
      /\ phase' = phase /\ phase = "up" /\ answered' = answered /\ logs' = logs
      /\ requests' = [requests EXCEPT ![c] = NoRequest]
      /\ HalfCreated(tp, config)
    BY DEF IInv, TypeOK, RequestsInv, CreateFails
<1>2. /\ tp \in (Topics \cup {Offsets}) \X Nat
      /\ tp[1] # Offsets
      /\ config \in Configs
      /\ \A p \in 0 .. (tp[2] - 1) : <<tp[1], p>> \in DOMAIN logs
    BY <1>1 DEF Request, NextTP, Configs, IInv, RequestsInv
<1>3. /\ DOMAIN dirs' = DOMAIN dirs \cup {tp}
      /\ \A x \in DOMAIN dirs : x # tp => dirs'[x] = dirs[x]
      /\ tp \notin DOMAIN logs
      /\ DOMAIN dirs' \subseteq (Topics \cup {Offsets}) \X Nat
      /\ \A x \in DOMAIN dirs' : dirs'[x] \in Directory
      /\ DirsAreInOrder'
      /\ Closed(DOMAIN dirs)'
      /\ \A t \in DOMAIN answered : \A p \in 0 .. (answered[t].count - 1) :
            /\ <<t, p>> \in DOMAIN dirs'
            /\ dirs'[<<t, p>>].meta = answered[t].config
    <2> HIDE DEF tp, config
    <2> QED
        BY <1>1, <1>2, HalfCreatedKeepsDirs
<1>4. RequestsInv' /\ requests' \in [Clients -> Request \cup {NoRequest}]
    BY <1>1, RequestEnds
<1> HIDE DEF tp, config
<1>5. TypeOK'
    BY <1>1, <1>3, <1>4 DEF IInv, TypeOK
<1>6. HostedIsStored'
    BY <1>1, <1>3 DEF IInv, TypeOK, HostedIsStored
<1>7. NumberedInv'
    BY <1>1, <1>3 DEF IInv, NumberedInv, Loaded
<1>8. AnsweredInv'
    BY <1>1, <1>3 DEF IInv, AnsweredInv, Loaded
<1>9. OffsetsInv'
    <2>1. /\ \A x \in OffsetsDirs' : x \in OffsetsDirs /\ dirs'[x] = dirs[x]
          /\ \A x : x[1] = Offsets => (x \in DOMAIN dirs' <=> x \in DOMAIN dirs)
        BY <1>2, <1>3 DEF OffsetsDirs
    <2> QED
        BY <1>1, <2>1 DEF IInv, OffsetsInv, OffsetsDirs, Loaded, LastOffsets
<1> QED
    BY <1>3, <1>4, <1>5, <1>6, <1>7, <1>8, <1>9 DEF IInv

\* When the process dies, the directories are all that is left: what holds of
\* them is what holds.
LEMMA DiesKeeps ==
    ASSUME IInv, Dies,
           DOMAIN dirs' \subseteq (Topics \cup {Offsets}) \X Nat,
           \A x \in DOMAIN dirs' : dirs'[x] \in Directory,
           DirsAreInOrder', Closed(DOMAIN dirs)',
           \A t \in DOMAIN answered : \A p \in 0 .. (answered[t].count - 1) :
               /\ <<t, p>> \in DOMAIN dirs'
               /\ dirs'[<<t, p>>].meta = answered[t].config,
           \A tp \in OffsetsDirs' :
               /\ tp[2] < OffsetsPartitions
               /\ <<Offsets, tp[2] + 1>> \in DOMAIN dirs' => dirs'[tp].meta = Neutered
    PROVE  IInv'
<1>1. /\ phase' = "down" /\ DOMAIN logs' = {} /\ answered' = answered
      /\ requests' = [c \in Clients |-> NoRequest]
    BY DEF Dies
<1>2. ~Loaded'
    BY <1>1 DEF Loaded
<1>3. requests' \in [Clients -> Request \cup {NoRequest}]
    BY <1>1
<1>4. TypeOK'
    BY <1>1, <1>3 DEF IInv, TypeOK
<1>5. HostedIsStored' /\ NumberedInv'
    BY <1>1, <1>2 DEF HostedIsStored, NumberedInv
<1>6. AnsweredInv'
    BY <1>1, <1>2 DEF AnsweredInv
<1>7. RequestsInv'
    BY <1>1 DEF RequestsInv
<1>8. OffsetsInv'
    BY <1>1, <1>2 DEF OffsetsInv
<1> QED
    BY <1>4, <1>5, <1>6, <1>7, <1>8 DEF IInv

LEMMA CrashKeeps ==
    ASSUME IInv, Crash
    PROVE  IInv'
<1>1. Dies /\ dirs' = dirs
    BY DEF Crash
<1>2. OffsetsDirs' = OffsetsDirs
    BY <1>1 DEF OffsetsDirs
<1>3. TypeOK /\ DirsAreInOrder /\ Closed(DOMAIN dirs) /\ AnsweredInv /\ OffsetsInv
    BY DEF IInv, NumberedInv
<1>4. /\ DOMAIN dirs' \subseteq (Topics \cup {Offsets}) \X Nat
      /\ \A x \in DOMAIN dirs' : dirs'[x] \in Directory
    BY <1>1, <1>3 DEF TypeOK
<1>5. DirsAreInOrder' /\ Closed(DOMAIN dirs)'
    BY <1>1, <1>3 DEF DirsAreInOrder, Closed
<1>6. \A t \in DOMAIN answered : \A p \in 0 .. (answered[t].count - 1) :
          <<t, p>> \in DOMAIN dirs' /\ dirs'[<<t, p>>].meta = answered[t].config
    BY <1>1, <1>3 DEF AnsweredInv
<1>7. \A tp \in OffsetsDirs' :
          /\ tp[2] < OffsetsPartitions
          /\ <<Offsets, tp[2] + 1>> \in DOMAIN dirs' => dirs'[tp].meta = Neutered
    BY <1>1, <1>2, <1>3 DEF OffsetsInv
<1> QED
    BY <1>1, <1>4, <1>5, <1>6, <1>7, DiesKeeps

\* The process dies inside a CreateTopic.
LEMMA CrashInCreateKeeps ==
    ASSUME IInv, NEW c \in Clients, CrashInCreate(c)
    PROVE  IInv'
<1> USE TopicRegistryAssumption
<1> DEFINE tp == NextTP(c)
           config == requests[c].config
<1>1. /\ requests[c] \in Request
      /\ requests[c] # NoRequest
      /\ HalfCreated(tp, config)
      /\ Dies
    BY DEF IInv, TypeOK, CrashInCreate
<1>2. /\ tp \in (Topics \cup {Offsets}) \X Nat
      /\ tp[1] # Offsets
      /\ config \in Configs
      /\ \A p \in 0 .. (tp[2] - 1) : <<tp[1], p>> \in DOMAIN logs
    BY <1>1 DEF Request, NextTP, Configs, IInv, RequestsInv
<1> HIDE DEF tp, config
<1>3. /\ DOMAIN dirs' = DOMAIN dirs \cup {tp}
      /\ \A x \in DOMAIN dirs : x # tp => dirs'[x] = dirs[x]
      /\ DOMAIN dirs' \subseteq (Topics \cup {Offsets}) \X Nat
      /\ \A x \in DOMAIN dirs' : dirs'[x] \in Directory
      /\ DirsAreInOrder'
      /\ Closed(DOMAIN dirs)'
      /\ \A t \in DOMAIN answered : \A p \in 0 .. (answered[t].count - 1) :
            /\ <<t, p>> \in DOMAIN dirs'
            /\ dirs'[<<t, p>>].meta = answered[t].config
    BY <1>1, <1>2, HalfCreatedKeepsDirs
<1>4. /\ \A x \in OffsetsDirs' : x \in OffsetsDirs /\ dirs'[x] = dirs[x]
      /\ \A x : x[1] = Offsets => (x \in DOMAIN dirs' <=> x \in DOMAIN dirs)
    BY <1>2, <1>3 DEF OffsetsDirs
<1>5. \A x \in OffsetsDirs' :
          /\ x[2] < OffsetsPartitions
          /\ <<Offsets, x[2] + 1>> \in DOMAIN dirs' => dirs'[x].meta = Neutered
    <2>1. OffsetsInv
        BY DEF IInv
    <2> QED
        BY <2>1, <1>4 DEF OffsetsInv
<1> QED
    BY <1>1, <1>3, <1>5, DiesKeeps

\* The process dies inside ensureOffsetsTopic(): the partition it was at is the
\* last there is, and may be without its configuration.
LEMMA CrashInEnsureKeeps ==
    ASSUME IInv, CrashInEnsure
    PROVE  IInv'
<1> USE TopicRegistryAssumption
<1> DEFINE n == Cardinality(PartitionsOf(Offsets))
           tp == <<Offsets, n>>
<1>1. /\ phase = "ensuring" /\ Loaded
      /\ HalfCreated(NextOffsets, Neutered)
      /\ Dies
      /\ LastOffsets \notin DOMAIN dirs
      /\ \A x \in OffsetsDirs : dirs[x].meta = Neutered /\ x[2] < OffsetsPartitions
    BY DEF CrashInEnsure, Loaded, IInv, OffsetsInv
<1>2. /\ n \in 0 .. OffsetsPartitions
      /\ NextOffsets = tp
      /\ \A p \in Nat : <<Offsets, p>> \in DOMAIN logs <=> p < n
      /\ \A p \in Nat : <<Offsets, p>> \in DOMAIN dirs <=> p < n
    BY <1>1, NextOffsetsIsNext
<1> HIDE DEF n
<1>3. n < OffsetsPartitions /\ n \in Nat
    BY <1>1, <1>2 DEF LastOffsets
<1>4. /\ tp \in (Topics \cup {Offsets}) \X Nat
      /\ tp[1] = Offsets /\ tp[2] = n
      /\ Neutered \in Configs
      /\ \A p \in 0 .. (tp[2] - 1) : <<tp[1], p>> \in DOMAIN logs
    BY <1>2, <1>3 DEF Configs
<1>5. /\ DOMAIN dirs' = DOMAIN dirs \cup {tp}
      /\ \A x \in DOMAIN dirs : x # tp => dirs'[x] = dirs[x]
      /\ DOMAIN dirs' \subseteq (Topics \cup {Offsets}) \X Nat
      /\ \A x \in DOMAIN dirs' : dirs'[x] \in Directory
      /\ DirsAreInOrder'
      /\ Closed(DOMAIN dirs)'
      /\ \A t \in DOMAIN answered : \A p \in 0 .. (answered[t].count - 1) :
            /\ <<t, p>> \in DOMAIN dirs'
            /\ dirs'[<<t, p>>].meta = answered[t].config
    <2>1. HalfCreated(tp, Neutered)
        BY <1>1, <1>2
    <2> HIDE DEF tp
    <2> QED
        BY <2>1, <1>4, HalfCreatedKeepsDirs
<1>6. \A x \in OffsetsDirs' :
          /\ x[2] < OffsetsPartitions
          /\ <<Offsets, x[2] + 1>> \in DOMAIN dirs' => dirs'[x].meta = Neutered
    <2>1. SUFFICES ASSUME NEW x \in OffsetsDirs'
                   PROVE  /\ x[2] < OffsetsPartitions
                          /\ <<Offsets, x[2] + 1>> \in DOMAIN dirs' => dirs'[x].meta = Neutered
        OBVIOUS
    <2>2. CASE x = tp
        <3>1. <<Offsets, n + 1>> # tp /\ <<Offsets, n + 1>> \notin DOMAIN dirs
            BY <1>2, <1>3
        <3>2. <<Offsets, n + 1>> \notin DOMAIN dirs'
            BY <3>1, <1>5
        <3> QED
            BY <2>2, <3>2, <1>3, <1>4
    <2>3. CASE x # tp
        <3>1. x \in OffsetsDirs
            BY <2>1, <2>3, <1>5 DEF OffsetsDirs
        <3>2. dirs'[x] = dirs[x]
            BY <3>1, <2>3, <1>5 DEF OffsetsDirs
        <3> QED
            BY <3>1, <3>2, <1>1
    <2> QED
        BY <2>2, <2>3
<1> QED
    BY <1>1, <1>5, <1>6, DiesKeeps

LEMMA StartKeeps ==
    ASSUME IInv, Start
    PROVE  IInv'
BY DEF IInv, Start, TypeOK, DirsAreInOrder, HostedIsStored, NumberedInv, Closed, Loaded,
       AnsweredInv, RequestsInv, OffsetsInv, OffsetsDirs, LastOffsets

\* loadAll() opens a directory.  It never refuses one: nothing is written to a
\* partition before its configuration is.
LEMMA LoadPartitionKeeps ==
    ASSUME IInv, NEW tp \in DOMAIN dirs, LoadPartition(tp)
    PROVE  IInv'
<1> USE TopicRegistryAssumption
<1>1. /\ phase = "loading" /\ tp \notin DOMAIN logs
      /\ requests' = requests /\ answered' = answered
      /\ dirs[tp] \in Directory
    BY DEF LoadPartition, IInv, TypeOK
<1>2. ResolveConfig(tp) = {IF dirs[tp].meta # NoMeta THEN dirs[tp].meta ELSE Defaults}
    BY DEF ResolveConfig, IInv, DirsAreInOrder
<1>3. PICK config \in ResolveConfig(tp) :
          /\ dirs' = [dirs EXCEPT ![tp].segment = TRUE, ![tp].meta = config]
          /\ logs' = With(logs, tp, config)
          /\ phase' = phase
    BY <1>2 DEF LoadPartition
<1>4. /\ config \in Configs /\ config # NoMeta
      /\ dirs[tp].meta # NoMeta => config = dirs[tp].meta
    <2>1. config = IF dirs[tp].meta # NoMeta THEN dirs[tp].meta ELSE Defaults
        BY <1>2
    <2> QED
        BY <2>1, <1>1 DEF Directory, Configs
<1>5. /\ DOMAIN dirs' = DOMAIN dirs
      /\ \A x \in DOMAIN dirs : x # tp => dirs'[x] = dirs[x]
      /\ dirs'[tp] = [dirs[tp] EXCEPT !.segment = TRUE, !.meta = config]
    BY <1>3
<1>6. /\ dirs'[tp].segment = TRUE /\ dirs'[tp].meta = config
      /\ dirs'[tp].records = dirs[tp].records
      /\ dirs'[tp] \in Directory
    BY <1>1, <1>4, <1>5 DEF Directory
<1>7. /\ DOMAIN logs' = DOMAIN logs \cup {tp}
      /\ logs'[tp] = config
      /\ \A x \in DOMAIN logs : x # tp /\ logs'[x] = logs[x]
    BY <1>1, <1>3 DEF With
<1>8. ~Loaded /\ ~Loaded'
    BY <1>1, <1>3 DEF Loaded
<1>9. TypeOK'
    BY <1>1, <1>3, <1>5, <1>6, <1>7 DEF IInv, TypeOK
<1>10. DirsAreInOrder' /\ HostedIsStored'
    BY <1>4, <1>5, <1>6, <1>7 DEF IInv, TypeOK, DirsAreInOrder, HostedIsStored
<1>11. NumberedInv'
    BY <1>1, <1>3, <1>5, <1>8 DEF IInv, NumberedInv
<1>12. AnsweredInv'
    <2>1. SUFFICES ASSUME NEW t \in DOMAIN answered, NEW p \in 0 .. (answered[t].count - 1)
                   PROVE  /\ <<t, p>> \in DOMAIN dirs'
                          /\ dirs'[<<t, p>>].meta = answered[t].config
        BY <1>1, <1>8 DEF AnsweredInv
    <2>2. /\ <<t, p>> \in DOMAIN dirs
          /\ dirs[<<t, p>>].meta = answered[t].config
          /\ answered[t].config # NoMeta
        BY DEF IInv, AnsweredInv, TypeOK
    <2> QED
        BY <2>2, <1>4, <1>5, <1>6
<1>13. RequestsInv'
    BY <1>1 DEF IInv, RequestsInv
<1>14. OffsetsInv'
    <2>1. OffsetsDirs' = OffsetsDirs
        BY <1>5 DEF OffsetsDirs
    <2>2. ASSUME NEW x \in OffsetsDirs, <<Offsets, x[2] + 1>> \in DOMAIN dirs
          PROVE  dirs'[x].meta = Neutered
        <3>1. dirs[x].meta = Neutered /\ x \in DOMAIN dirs
            BY <2>2 DEF IInv, OffsetsInv, OffsetsDirs
        <3>2. Neutered # NoMeta
            OBVIOUS
        <3> QED
            BY <3>1, <3>2, <1>4, <1>5, <1>6
    <2>3. \A x \in OffsetsDirs : x[2] < OffsetsPartitions
        BY DEF IInv, OffsetsInv
    <2> QED
        BY <1>1, <1>3, <1>5, <1>8, <2>1, <2>2, <2>3 DEF OffsetsInv
<1> QED
    BY <1>9, <1>10, <1>11, <1>12, <1>13, <1>14 DEF IInv

\* ensureOffsetsTopic() counts what loadAll() found.
LEMMA CountOffsetsKeeps ==
    ASSUME IInv, CountOffsets
    PROVE  IInv'
<1> USE TopicRegistryAssumption
<1> DEFINE n == Cardinality(PartitionsOf(Offsets))
<1>1. /\ phase = "loading" /\ DOMAIN dirs = DOMAIN logs
      /\ dirs' = dirs /\ logs' = logs /\ requests' = requests /\ answered' = answered
      /\ phase' \in {"ensuring", "up", "refused"}
    BY DEF CountOffsets
<1>2. /\ n \in 0 .. OffsetsPartitions
      /\ \A p \in Nat : <<Offsets, p>> \in DOMAIN dirs <=> p < n
    BY <1>1, NextOffsetsIsNext
<1>3. OffsetsDirs = PartitionsOf(Offsets)
    BY <1>1 DEF OffsetsDirs, PartitionsOf
<1>4. LastOffsets \in DOMAIN dirs <=> n = OffsetsPartitions
    <2> HIDE DEF n
    <2>1. OffsetsPartitions - 1 \in Nat /\ OffsetsPartitions \in Nat
        OBVIOUS
    <2> QED
        BY <1>2, <2>1 DEF LastOffsets
<1>5. OffsetsDirs = {} <=> n = 0
    <2>1. ASSUME NEW x \in OffsetsDirs PROVE x = <<Offsets, x[2]>> /\ x[2] \in Nat /\ x \in DOMAIN dirs
        BY DEF OffsetsDirs, IInv, TypeOK
    <2> HIDE DEF n
    <2>2. ASSUME OffsetsDirs = {}, n # 0 PROVE FALSE
        <3>1. <<Offsets, 0>> \in DOMAIN dirs
            BY <2>2, <1>2
        <3> QED
            BY <3>1, <2>2 DEF OffsetsDirs
    <2>3. ASSUME NEW x \in OffsetsDirs, n = 0 PROVE FALSE
        BY <2>1, <2>3, <1>2
    <2> QED
        BY <2>2, <2>3
<1>6. /\ phase' = "ensuring" => OffsetsDirs = {}
      /\ phase' = "up" => n = OffsetsPartitions
      /\ phase' = "refused" => OffsetsDirs # {} /\ n # OffsetsPartitions
    BY <1>3 DEF CountOffsets
<1> HIDE DEF n
<1>7. TypeOK'
    BY <1>1 DEF IInv, TypeOK
<1>8. DirsAreInOrder' /\ HostedIsStored'
    BY <1>1 DEF IInv, DirsAreInOrder, HostedIsStored
<1>9. NumberedInv'
    BY <1>1 DEF IInv, NumberedInv, Closed
<1>10. AnsweredInv'
    BY <1>1 DEF IInv, AnsweredInv
<1>11. RequestsInv'
    <2>1. \A c \in Clients : requests[c] = NoRequest
        BY <1>1 DEF IInv, RequestsInv
    <2> QED
        BY <1>1, <2>1 DEF RequestsInv
<1>12. OffsetsInv'
    <2>1. OffsetsDirs' = OffsetsDirs /\ LastOffsets' = LastOffsets
        BY <1>1 DEF OffsetsDirs, LastOffsets
    <2>2. OffsetsDirs \subseteq DOMAIN logs
        BY <1>1 DEF OffsetsDirs
    <2>3. \A x \in OffsetsDirs :
              /\ x[2] < OffsetsPartitions
              /\ <<Offsets, x[2] + 1>> \in DOMAIN dirs => dirs[x].meta = Neutered
        BY DEF IInv, OffsetsInv
    <2>4. OffsetsDirs = {} => LastOffsets \notin DOMAIN dirs
        BY DEF OffsetsDirs, LastOffsets
    <2> HIDE DEF OffsetsDirs, LastOffsets
    <2> QED
        BY <1>1, <1>4, <1>6, <2>1, <2>2, <2>3, <2>4 DEF OffsetsInv
<1> QED
    BY <1>7, <1>8, <1>9, <1>10, <1>11, <1>12 DEF IInv

\* A CreateTopic is taken up: it has not made anything yet.
LEMMA ReceiveKeeps ==
    ASSUME IInv, NEW c \in Clients, NEW t \in Topics, NEW n \in 1 .. MaxPartitions,
           NEW config \in Asked, Receive(c, t, n, config)
    PROVE  IInv'
<1> USE TopicRegistryAssumption
<1> DEFINE r == [topic |-> t, count |-> n, config |-> config, next |-> 0]
<1>1. /\ phase = "up" /\ phase' = phase
      /\ dirs' = dirs /\ logs' = logs /\ answered' = answered
      /\ requests' = [requests EXCEPT ![c] = r]
    BY DEF Receive
<1>2. r \in Request /\ r.next = 0 /\ r.count = n /\ r.topic = t /\ r.config = config
    BY DEF Request
<1> HIDE DEF r
<1>3. requests' \in [Clients -> Request \cup {NoRequest}]
    BY <1>1, <1>2 DEF IInv, TypeOK
<1>4. TypeOK'
    BY <1>1, <1>3 DEF IInv, TypeOK
<1>5. DirsAreInOrder' /\ HostedIsStored' /\ NumberedInv' /\ AnsweredInv'
    BY <1>1 DEF IInv, DirsAreInOrder, HostedIsStored, NumberedInv, Closed, Loaded,
                AnsweredInv
<1>6. RequestsInv'
    <2>1. SUFFICES ASSUME NEW d \in Clients, requests'[d] # NoRequest
                   PROVE  /\ requests'[d].next <= requests'[d].count
                          /\ \A p \in 0 .. (requests'[d].next - 1) :
                                /\ <<requests'[d].topic, p>> \in DOMAIN logs
                                /\ logs[<<requests'[d].topic, p>>] = requests'[d].config
        BY <1>1 DEF RequestsInv
    <2>2. requests'[d] = IF d = c THEN r ELSE requests[d]
        BY <1>1 DEF IInv, TypeOK
    <2>3. CASE d = c
        BY <2>2, <2>3, <1>2
    <2>4. CASE d # c
        BY <2>1, <2>2, <2>4 DEF IInv, RequestsInv
    <2> QED
        BY <2>3, <2>4
<1>7. OffsetsInv'
    BY <1>1 DEF IInv, OffsetsInv, OffsetsDirs, Loaded, LastOffsets
<1> QED
    BY <1>4, <1>5, <1>6, <1>7 DEF IInv

\* CreateTopic is refused over a partition, and answers Unknown.
LEMMA CreateRefusedKeeps ==
    ASSUME IInv, NEW c \in Clients, CreateRefused(c)
    PROVE  IInv'
<1>1. /\ requests' = [requests EXCEPT ![c] = NoRequest]
      /\ dirs' = dirs /\ phase' = phase /\ logs' = logs /\ answered' = answered
    BY DEF CreateRefused
<1>2. RequestsInv' /\ requests' \in [Clients -> Request \cup {NoRequest}]
    BY <1>1, RequestEnds
<1> QED
    BY <1>1, <1>2 DEF IInv, TypeOK, DirsAreInOrder, HostedIsStored, NumberedInv, Closed, Loaded,
                      AnsweredInv, OffsetsInv, OffsetsDirs, LastOffsets

\* CreateTopic answers None: all its partitions are there.
LEMMA AnswerKeeps ==
    ASSUME IInv, NEW c \in Clients, Answer(c)
    PROVE  IInv'
<1> DEFINE r == requests[c]
           a == [count |-> r.count, config |-> r.config]
<1>1. /\ r \in Request /\ r.next = r.count /\ phase = "up"
      /\ requests' = [requests EXCEPT ![c] = NoRequest]
      /\ answered' = With(answered, r.topic, a)
      /\ dirs' = dirs /\ phase' = phase /\ logs' = logs
    BY DEF Answer, IInv, TypeOK, RequestsInv
<1>2. \A p \in 0 .. (r.count - 1) :
          <<r.topic, p>> \in DOMAIN logs /\ logs[<<r.topic, p>>] = r.config
    BY <1>1 DEF IInv, RequestsInv, Answer
<1>3. /\ a \in [count : 1 .. MaxPartitions, config : Asked]
      /\ a.count = r.count /\ a.config = r.config /\ r.topic \in Topics
    BY <1>1 DEF Request
<1> HIDE DEF r, a
<1>4. /\ DOMAIN answered' = DOMAIN answered \cup {r.topic}
      /\ answered'[r.topic] = a
      /\ \A t \in DOMAIN answered : t # r.topic => answered'[t] = answered[t]
    BY <1>1 DEF With
<1>5. RequestsInv' /\ requests' \in [Clients -> Request \cup {NoRequest}]
    BY <1>1, RequestEnds
<1>6. TypeOK'
    BY <1>1, <1>3, <1>4, <1>5 DEF IInv, TypeOK
<1>7. DirsAreInOrder' /\ HostedIsStored' /\ NumberedInv'
    BY <1>1 DEF IInv, DirsAreInOrder, HostedIsStored, NumberedInv, Closed, Loaded
<1>8. AnsweredInv'
    <2>1. SUFFICES ASSUME NEW t \in DOMAIN answered', NEW p \in 0 .. (answered'[t].count - 1)
                   PROVE  /\ <<t, p>> \in DOMAIN dirs
                          /\ dirs[<<t, p>>].meta = answered'[t].config
                          /\ <<t, p>> \in DOMAIN logs
        BY <1>1 DEF AnsweredInv
    <2>2. CASE t = r.topic
        <3>1. <<t, p>> \in DOMAIN logs /\ logs[<<t, p>>] = answered'[t].config
            BY <2>2, <1>2, <1>3, <1>4
        <3> QED
            BY <3>1 DEF IInv, TypeOK, HostedIsStored
    <2>3. CASE t # r.topic
        <3>1. t \in DOMAIN answered /\ answered'[t] = answered[t]
            BY <2>3, <1>4
        <3> QED
            BY <3>1, <1>1 DEF IInv, AnsweredInv, Loaded
    <2> QED
        BY <2>2, <2>3
<1>9. OffsetsInv'
    BY <1>1 DEF IInv, OffsetsInv, OffsetsDirs, Loaded, LastOffsets
<1> QED
    BY <1>5, <1>6, <1>7, <1>8, <1>9 DEF IInv

\* The first record is written to a partition.
LEMMA ProduceKeeps ==
    ASSUME IInv, NEW tp \in DOMAIN logs, Produce(tp)
    PROVE  IInv'
<1>1. /\ tp \in DOMAIN dirs /\ dirs[tp] \in Directory
      /\ dirs[tp].meta # NoMeta /\ dirs[tp].segment
      /\ dirs' = [dirs EXCEPT ![tp].records = TRUE]
      /\ phase' = phase /\ logs' = logs /\ requests' = requests /\ answered' = answered
    BY DEF Produce, IInv, TypeOK, HostedIsStored, DirsAreInOrder
<1>2. /\ DOMAIN dirs' = DOMAIN dirs
      /\ \A x \in DOMAIN dirs : x # tp => dirs'[x] = dirs[x]
      /\ dirs'[tp] = [dirs[tp] EXCEPT !.records = TRUE]
    BY <1>1
<1>3. dirs'[tp] \in Directory
    BY <1>1, <1>2 DEF Directory
<1>4. \A x \in DOMAIN dirs : dirs'[x].meta = dirs[x].meta
    BY <1>1, <1>2 DEF Directory
<1>5. \A x \in DOMAIN dirs : dirs'[x].segment <=> dirs[x].segment
    BY <1>1, <1>2 DEF Directory
<1>6. TypeOK'
    BY <1>1, <1>2, <1>3 DEF IInv, TypeOK
<1>7. DirsAreInOrder'
    BY <1>1, <1>2, <1>4, <1>5 DEF IInv, DirsAreInOrder
<1>8. HostedIsStored' /\ NumberedInv'
    BY <1>1, <1>2, <1>4 DEF IInv, TypeOK, HostedIsStored, NumberedInv, Closed, Loaded
<1>9. AnsweredInv'
    <2>1. AnsweredInv
        BY DEF IInv
    <2>2. (Loaded' <=> Loaded) /\ answered' = answered /\ logs' = logs
        BY <1>1 DEF Loaded
    <2> HIDE DEF Loaded
    <2>3. ASSUME NEW t \in DOMAIN answered, NEW p \in 0 .. (answered[t].count - 1)
          PROVE  /\ <<t, p>> \in DOMAIN dirs'
                 /\ dirs'[<<t, p>>].meta = answered[t].config
                 /\ Loaded' => <<t, p>> \in DOMAIN logs'
        BY <1>2, <1>4, <2>1, <2>2 DEF AnsweredInv
    <2> QED
        BY <2>2, <2>3 DEF AnsweredInv
<1>10. RequestsInv'
    <2>1. RequestsInv
        BY DEF IInv
    <2> QED
        BY <1>1, <2>1 DEF RequestsInv
<1>11. OffsetsInv'
    <2>1. OffsetsDirs' = OffsetsDirs
        BY <1>2 DEF OffsetsDirs
    <2> QED
        BY <1>1, <1>2, <1>4, <2>1 DEF IInv, OffsetsInv, OffsetsDirs, Loaded, LastOffsets
<1> QED
    BY <1>6, <1>7, <1>8, <1>9, <1>10, <1>11 DEF IInv

LEMMA StepKeeps ==
    ASSUME IInv, [Next]_vars
    PROVE  IInv'
<1>1. CASE Start
    BY <1>1, StartKeeps
<1>2. ASSUME NEW tp \in DOMAIN dirs, LoadPartition(tp) PROVE IInv'
    BY <1>2, LoadPartitionKeeps
<1>3. CASE CountOffsets
    BY <1>3, CountOffsetsKeeps
<1>4. CASE EnsureOffsets
    BY <1>4, EnsureOffsetsKeeps
<1>5. ASSUME NEW c \in Clients, Creating(c) PROVE IInv'
    <2>1. ASSUME NEW t \in Topics, NEW n \in 1 .. MaxPartitions, NEW config \in Asked,
                 Receive(c, t, n, config)
          PROVE  IInv'
        BY <2>1, ReceiveKeeps
    <2>2. CASE CreateNext(c)
        BY <2>2, CreateNextKeeps
    <2>3. CASE CreateRefused(c)
        BY <2>3, CreateRefusedKeeps
    <2>4. CASE CreateFails(c)
        BY <2>4, CreateFailsKeeps
    <2>5. CASE Answer(c)
        BY <2>5, AnswerKeeps
    <2>6. CASE CrashInCreate(c)
        BY <2>6, CrashInCreateKeeps
    <2> QED
        BY <1>5, <2>1, <2>2, <2>3, <2>4, <2>5, <2>6 DEF Creating
<1>6. ASSUME NEW tp \in DOMAIN logs, Produce(tp) PROVE IInv'
    BY <1>6, ProduceKeeps
<1>7. CASE Crash
    BY <1>7, CrashKeeps
<1>8. CASE CrashInEnsure
    BY <1>8, CrashInEnsureKeeps
<1>9. CASE UNCHANGED vars
    BY <1>9 DEF IInv, TypeOK, DirsAreInOrder, HostedIsStored, NumberedInv, Closed, Loaded,
                AnsweredInv, RequestsInv, OffsetsInv, OffsetsDirs, LastOffsets, vars
<1> QED
    BY <1>1, <1>2, <1>3, <1>4, <1>5, <1>6, <1>7, <1>8, <1>9 DEF Next

LEMMA InitKeeps ==
    ASSUME Init
    PROVE  IInv
<1>1. requests \in [Clients -> Request \cup {NoRequest}]
    BY DEF Init
<1>2. TypeOK
    BY <1>1 DEF Init, TypeOK
<1>3. DirsAreInOrder /\ HostedIsStored /\ NumberedInv /\ AnsweredInv
    BY DEF Init, DirsAreInOrder, HostedIsStored, NumberedInv, Closed, Loaded, AnsweredInv
<1>4. RequestsInv /\ OffsetsInv
    BY DEF Init, RequestsInv, OffsetsInv, OffsetsDirs, Loaded
<1> QED
    BY <1>2, <1>3, <1>4 DEF IInv

\* The conjuncts of IInv hold in every reachable state.
LEMMA Invariance == Spec => []IInv
<1>1. Init => IInv
    BY InitKeeps
<1>2. IInv /\ [Next]_vars => IInv'
    BY StepKeeps
<1> QED
    BY <1>1, <1>2, PTL DEF Spec

-----------------------------------------------------------------------------
\* The theorems.

\* The variables keep their types: in particular a hosted partition always has its
\* directory, and an unhosted one no configuration in logs_.
THEOREM TypeCorrect == Spec => []TypeOK
<1>1. IInv => TypeOK
    BY DEF IInv
<1> QED
    BY <1>1, Invariance, PTL

\* The directories of __offsets are numbered up to their own number.
LEMMA OffsetsDirsAreCounted ==
    ASSUME IInv
    PROVE  LET n == Cardinality(OffsetsDirs)
           IN  /\ n \in 0 .. OffsetsPartitions
               /\ \A p \in Nat : <<Offsets, p>> \in DOMAIN dirs <=> p < n
<1>1. Closed(DOMAIN dirs)
    BY DEF IInv, NumberedInv
<1>2. \A tp \in DOMAIN dirs : tp = <<tp[1], tp[2]>> /\ tp[2] \in Nat
    BY DEF IInv, TypeOK
<1>3. \A tp \in DOMAIN dirs : tp[1] = Offsets => tp[2] < OffsetsPartitions
    BY DEF IInv, OffsetsInv, OffsetsDirs
<1>4. OffsetsPartitions \in Nat
    BY TopicRegistryAssumption
<1>5. LET n == CountIn(DOMAIN dirs, Offsets)
      IN  /\ n \in 0 .. OffsetsPartitions
          /\ \A p \in Nat : <<Offsets, p>> \in DOMAIN dirs <=> p < n
    BY <1>1, <1>2, <1>3, <1>4, CountIsNext
<1> QED
    BY <1>5 DEF OffsetsDirs, CountIn

\* loadAll() opens whatever createPartition() left, however often it failed and
\* the process died; only ensureOffsetsTopic() refuses a start, and only over an
\* __offsets that is there in part.
THEOREM BrokerStartsAgain == Spec => []StartsAgain
<1>1. IInv => StartsAgain
    <2> USE TopicRegistryAssumption
    <2> SUFFICES ASSUME IInv, phase = "refused"
                 PROVE  Cardinality(OffsetsDirs) \in 1 .. (OffsetsPartitions - 1)
        BY DEF StartsAgain
    <2> DEFINE n == Cardinality(OffsetsDirs)
               S == DOMAIN dirs
    <2>2. \A tp \in S : tp = <<tp[1], tp[2]>> /\ tp[2] \in Nat
        BY DEF IInv, TypeOK
    <2>4. OffsetsPartitions \in Nat /\ OffsetsPartitions - 1 \in Nat
        OBVIOUS
    <2>5. n \in 0 .. OffsetsPartitions /\ \A p \in Nat : <<Offsets, p>> \in S <=> p < n
        BY OffsetsDirsAreCounted
    <2>6. <<Offsets, OffsetsPartitions - 1>> \notin S /\ \E x \in S : x[1] = Offsets
        BY DEF IInv, OffsetsInv, OffsetsDirs, LastOffsets
    <2>7. n # OffsetsPartitions
        <3> HIDE DEF n
        <3> QED
            BY <2>4, <2>5, <2>6
    <2>8. n # 0
        <3> HIDE DEF n
        <3>1. PICK x \in S : x = <<Offsets, x[2]>> /\ x[2] \in Nat
            BY <2>2, <2>6
        <3> QED
            BY <3>1, <2>5
    <2>9. n \in 1 .. (OffsetsPartitions - 1)
        <3> HIDE DEF n
        <3> QED
            BY <2>4, <2>5, <2>7, <2>8
    <2> QED
        BY <2>9 DEF OffsetsDirs
<1> QED
    BY <1>1, Invariance, PTL

\* A topic that CreateTopic answered None for is there as it was asked for, and
\* the partitions of any topic are numbered without a gap, whatever interleaved
\* or failed.
THEOREM TopicsStayWhole == Spec => []TopicsAreWhole
<1>1. IInv => AnsweredIsWhole
    BY DEF IInv, TypeOK, AnsweredInv, HostedIsStored, AnsweredIsWhole, Loaded
<1>2. IInv => NumberedFromZero
    BY DEF IInv, NumberedInv, NumberedFromZero, Closed, Loaded
<1>3. IInv => TopicsAreWhole
    BY <1>1, <1>2 DEF TopicsAreWhole
<1> QED
    BY <1>3, Invariance, PTL

\* A broker that serves has all of __offsets, and time-based retention is off for
\* every partition of it but perhaps the last.
THEOREM OffsetsNeverAgeOut == Spec => []OffsetsNeverAge
<1>1. IInv => OffsetsNeverAge
    <2> USE TopicRegistryAssumption
    <2> SUFFICES ASSUME IInv, phase = "up"
                 PROVE  /\ Cardinality(PartitionsOf(Offsets)) = OffsetsPartitions
                        /\ \A p \in 0 .. (OffsetsPartitions - 2) :
                               logs[<<Offsets, p>>] = Neutered
        BY DEF OffsetsNeverAge
    <2> DEFINE n == Cardinality(PartitionsOf(Offsets))
    <2>1. /\ n \in 0 .. OffsetsPartitions
          /\ \A p \in Nat : <<Offsets, p>> \in DOMAIN logs <=> p < n
          /\ \A p \in Nat : <<Offsets, p>> \in DOMAIN dirs <=> p < n
        BY NextOffsetsIsNext DEF Loaded
    <2> HIDE DEF n
    <2>2. OffsetsPartitions \in Nat /\ OffsetsPartitions - 1 \in Nat
        OBVIOUS
    <2>3. <<Offsets, OffsetsPartitions - 1>> \in DOMAIN dirs
        BY DEF IInv, OffsetsInv, LastOffsets
    <2>4. n = OffsetsPartitions
        BY <2>1, <2>2, <2>3
    <2>5. ASSUME NEW p \in 0 .. (OffsetsPartitions - 2)
          PROVE  logs[<<Offsets, p>>] = Neutered
        <3>1. p \in Nat /\ p + 1 \in Nat /\ p < OffsetsPartitions /\ p + 1 < OffsetsPartitions
            BY <2>2
        <3>2. /\ <<Offsets, p>> \in DOMAIN dirs
              /\ <<Offsets, p + 1>> \in DOMAIN dirs
              /\ <<Offsets, p>> \in DOMAIN logs
            BY <3>1, <2>1, <2>4
        <3>3. dirs[<<Offsets, p>>].meta = Neutered
            <4>1. <<Offsets, p>> \in OffsetsDirs
                BY <3>2 DEF OffsetsDirs
            <4>2. OffsetsInv
                BY DEF IInv
            <4> QED
                BY <4>1, <4>2, <3>2 DEF OffsetsInv
        <3> QED
            BY <3>2, <3>3 DEF IInv, HostedIsStored
    <2> QED
        BY <2>4, <2>5 DEF n
<1> QED
    BY <1>1, Invariance, PTL

\* Whatever creates, fails, dies or starts again leaves a stored configuration as
\* it is.
LEMMA CreationKeepsConfigs ==
    ASSUME IInv, NEW tp, NEW dir, Creatable(tp), dirs' = With(dirs, tp, dir)
    PROVE  \A x \in DOMAIN dirs : dirs[x].meta # NoMeta =>
               x \in DOMAIN dirs' /\ dirs'[x].meta = dirs[x].meta
<1>1. DirsAreInOrder
    BY DEF IInv
<1>2. \A x \in DOMAIN dirs : dirs[x].meta # NoMeta => x # tp
    BY <1>1, OnlyFreshIsCreated
<1> QED
    BY <1>2 DEF With

\* A partition keeps the configuration it was first served with, across every
\* creation, failure, crash and restart with other defaults.
THEOREM ConfigsAreForGood == Spec => StoredConfigWins
<1> DEFINE A == \A tp \in DOMAIN dirs : dirs[tp].meta # NoMeta =>
                    tp \in DOMAIN dirs' /\ dirs'[tp].meta = dirs[tp].meta
<1>1. ASSUME IInv, NEW tp, NEW config, Created(tp, config) PROVE A
    BY <1>1, CreationKeepsConfigs DEF Created
<1>2. ASSUME IInv, NEW tp, NEW config, HalfCreated(tp, config) PROVE A
    <2>1. PICK half \in Halves(tp, config) : dirs' = With(dirs, tp, half)
        BY <1>2 DEF HalfCreated
    <2> QED
        BY <1>2, <2>1, CreationKeepsConfigs DEF HalfCreated
<1>3. ASSUME IInv, NEW tp \in DOMAIN dirs, LoadPartition(tp) PROVE A
    <2>1. CASE ResolveConfig(tp) = {}
        BY <2>1, <1>3 DEF LoadPartition
    <2>2. CASE ResolveConfig(tp) # {}
        <3>1. PICK config \in ResolveConfig(tp) :
                  dirs' = [dirs EXCEPT ![tp].segment = TRUE, ![tp].meta = config]
            BY <1>3, <2>2 DEF LoadPartition
        <3>2. dirs[tp].meta # NoMeta => config = dirs[tp].meta
            BY <3>1 DEF ResolveConfig
        <3>3. dirs[tp] \in Directory
            BY <1>3 DEF IInv, TypeOK
        <3>4. dirs'[tp].meta = config
            BY <1>3, <3>1, <3>3 DEF Directory
        <3> QED
            BY <3>1, <3>2, <3>4
    <2> QED
        BY <2>1, <2>2
<1>4. ASSUME IInv, NEW tp \in DOMAIN logs, Produce(tp) PROVE A
    <2>1. tp \in DOMAIN dirs /\ dirs[tp] \in Directory
        BY <1>4 DEF IInv, TypeOK
    <2> QED
        BY <1>4, <2>1 DEF Produce, Directory
<1>5. ASSUME UNCHANGED dirs PROVE A
    BY <1>5
<1>6. IInv /\ [Next]_vars => A
    <2> SUFFICES ASSUME IInv, [Next]_vars PROVE A
        OBVIOUS
    <2> HIDE DEF A
    <2>1. CASE Start \/ CountOffsets \/ Crash \/ UNCHANGED vars
        BY <2>1, <1>5 DEF Start, CountOffsets, Crash, vars
    <2>2. CASE EnsureOffsets \/ CrashInEnsure
        BY <2>2, <1>1, <1>2 DEF EnsureOffsets, CrashInEnsure
    <2>3. ASSUME NEW c \in Clients, Creating(c) PROVE A
        BY <2>3, <1>1, <1>2, <1>5
           DEF Creating, Receive, CreateNext, CreateRefused, CreateFails, Answer, CrashInCreate
    <2>4. ASSUME NEW tp \in DOMAIN dirs, LoadPartition(tp) PROVE A
        BY <2>4, <1>3
    <2>5. ASSUME NEW tp \in DOMAIN logs, Produce(tp) PROVE A
        BY <2>5, <1>4
    <2> QED
        BY <2>1, <2>2, <2>3, <2>4, <2>5 DEF Next
<1>7. IInv /\ [Next]_vars => [A]_vars
    BY <1>6
<1> QED
    BY <1>7, Invariance, PTL DEF Spec, StoredConfigWins
=============================================================================
