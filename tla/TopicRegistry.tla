---------------------------- MODULE TopicRegistry ----------------------------
(***************************************************************************)
(* Which partitions a broker hosts and with which configuration:           *)
(* LogManager, Log::create and Log::open, partition.meta, the creation of  *)
(* topics by clients and of __offsets at startup.                          *)
(*                                                                         *)
(* A partition is created in three file operations, its directory, its     *)
(* first segment and partition.meta, and is registered after the last.     *)
(* Each of them may fail, and the process may die before any of them; the  *)
(* next start opens whatever directories there are.  createPartition()     *)
(* holds the exclusive lock throughout, so without a fault it is one step; *)
(* the requests of several clients interleave between partitions.          *)
(***************************************************************************)
EXTENDS Integers, FiniteSets

CONSTANTS
    Topics,             \* names clients use
    Offsets,            \* kOffsetsTopic
    Clients,            \* connection threads with a CreateTopic request
    MaxPartitions,      \* bound: partitions a client asks for
    Asked,              \* configurations a client asks for
    Defaults,           \* LogManager::defaults_
    Neutered,           \* compacted and never aged out: the one of __offsets
    OffsetsPartitions,  \* Broker::Options::offsetsPartitions
    NoMeta, NoRequest   \* no partition.meta; no request

ASSUME TopicRegistryAssumption ==
    /\ Offsets \notin Topics
    /\ {MaxPartitions, OffsetsPartitions} \subseteq Nat \ {0}
    /\ Defaults # Neutered
    /\ NoMeta \notin Asked \cup {Defaults, Neutered}

VARIABLES
    dirs,       \* partition directories: [segment, meta, records]
    phase,      \* "down", "loading", "ensuring", "up", or "refused" to start
    logs,       \* logs_: hosted partition to its configuration
    requests,   \* the CreateTopic of each client [topic, count, config, next]
    answered    \* topic to what a CreateTopic was answered None for

vars == <<dirs, phase, logs, requests, answered>>

With(f, k, v) == [x \in DOMAIN f \cup {k} |-> IF x = k THEN v ELSE f[x]]

PartitionsOf(topic) == {tp \in DOMAIN logs : tp[1] = topic}

-----------------------------------------------------------------------------
\* Creating one partition.

\* createPartition() throws when the partition is hosted, and Log::create() when
\* the directory already has a segment.
Creatable(tp) == tp \notin DOMAIN logs /\ (tp \in DOMAIN dirs => ~dirs[tp].segment)

Fresh(config) == [segment |-> TRUE, meta |-> config, records |-> FALSE]

\* Mutant: the partition is registered before partition.meta is written.
CreatedEarly(tp, config) ==
    /\ Creatable(tp)
    /\ dirs' = With(dirs, tp, [Fresh(config) EXCEPT !.meta = NoMeta])
    /\ logs' = With(logs, tp, config)

Created(tp, config) ==
    /\ Creatable(tp)
    /\ dirs' = With(dirs, tp, Fresh(config))
    /\ logs' = With(logs, tp, config)

\* Mutant: partition.meta is written first.
HalvesMetaFirst(tp, config) ==
    {[segment |-> FALSE, meta |-> NoMeta, records |-> FALSE],
     [segment |-> FALSE, meta |-> config, records |-> FALSE]}

\* What is on disk when Log::create() gets no further: the directory, the segment
\* too, or everything although the partition was not registered.
Halves(tp, config) ==
    {[segment |-> FALSE, meta |-> NoMeta, records |-> FALSE],
     [segment |-> TRUE, meta |-> NoMeta, records |-> FALSE],
     Fresh(config)}

HalfCreated(tp, config) ==
    /\ Creatable(tp)
    /\ \E half \in Halves(tp, config) : dirs' = With(dirs, tp, half)

-----------------------------------------------------------------------------
\* Startup.

Start ==
    /\ phase = "down"
    /\ phase' = "loading"
    /\ UNCHANGED <<dirs, logs, requests, answered>>

\* Mutant: what the broker was started with goes for every partition.
ResolveToDefaults(tp) == {Defaults}

\* The configuration a directory is opened with: the stored one, the defaults
\* when none was stored and nothing written, or none: open() throws.
ResolveConfig(tp) ==
    CASE dirs[tp].meta # NoMeta -> {dirs[tp].meta}
      [] dirs[tp].meta = NoMeta /\ ~dirs[tp].records -> {Defaults}
      [] OTHER -> {}

\* loadAll() opens a directory, and what it resolved is written down; or the
\* exception ends the process.
LoadPartition(tp) ==
    /\ phase = "loading"
    /\ tp \in DOMAIN dirs \ DOMAIN logs
    /\ IF ResolveConfig(tp) = {}
       THEN phase' = "refused" /\ UNCHANGED <<dirs, logs>>
       ELSE \E config \in ResolveConfig(tp) :
                /\ dirs' = [dirs EXCEPT ![tp].segment = TRUE, ![tp].meta = config]
                /\ logs' = With(logs, tp, config)
                /\ UNCHANGED phase
    /\ UNCHANGED <<requests, answered>>

\* ensureOffsetsTopic(): a count that differs is refused, a complete topic is
\* taken as it is.
CountOffsets ==
    /\ phase = "loading"
    /\ DOMAIN dirs = DOMAIN logs
    /\ phase' = CASE PartitionsOf(Offsets) = {} -> "ensuring"
                  [] Cardinality(PartitionsOf(Offsets)) = OffsetsPartitions -> "up"
                  [] OTHER -> "refused"
    /\ UNCHANGED <<dirs, logs, requests, answered>>

NextOffsets == <<Offsets, Cardinality(PartitionsOf(Offsets))>>

EnsureOffsets ==
    /\ phase = "ensuring"
    /\ Created(NextOffsets, Neutered)
    /\ phase' = IF NextOffsets[2] + 1 = OffsetsPartitions THEN "up" ELSE phase
    /\ UNCHANGED <<requests, answered>>

-----------------------------------------------------------------------------
\* CreateTopic.

\* Mutant: no check before the first partition is made.
ReceiveUnchecked(c, topic, count, config) ==
    /\ phase = "up"
    /\ requests[c] = NoRequest
    /\ requests' = [requests EXCEPT ![c] =
            [topic |-> topic, count |-> count, config |-> config,
             next |-> Cardinality(PartitionsOf(topic))]]
    /\ UNCHANGED <<dirs, phase, logs, answered>>

\* None of the partitions exists; otherwise TopicAlreadyExists, and nothing
\* happens.  They are looked up one by one, but created in order, so that a look
\* at the first decides.
Receive(c, topic, count, config) ==
    /\ phase = "up"
    /\ requests[c] = NoRequest
    /\ \A p \in 0 .. (count - 1) : <<topic, p>> \notin DOMAIN logs
    /\ requests' = [requests EXCEPT ![c] =
            [topic |-> topic, count |-> count, config |-> config, next |-> 0]]
    /\ UNCHANGED <<dirs, phase, logs, answered>>

NextTP(c) == <<requests[c].topic, requests[c].next>>

CreateNext(c) ==
    /\ requests[c] # NoRequest
    /\ requests[c].next < requests[c].count
    /\ Created(NextTP(c), requests[c].config)
    /\ requests' = [requests EXCEPT ![c].next = @ + 1]
    /\ UNCHANGED <<phase, answered>>

\* Another client was faster, or a failed attempt left its segment: Unknown.
CreateRefused(c) ==
    /\ requests[c] # NoRequest
    /\ requests[c].next < requests[c].count
    /\ ~Creatable(NextTP(c))
    /\ requests' = [requests EXCEPT ![c] = NoRequest]
    /\ UNCHANGED <<dirs, phase, logs, answered>>

\* The disk is full: Unknown, and the partitions made so far stay.
CreateFails(c) ==
    /\ requests[c] # NoRequest
    /\ requests[c].next < requests[c].count
    /\ HalfCreated(NextTP(c), requests[c].config)
    /\ requests' = [requests EXCEPT ![c] = NoRequest]
    /\ UNCHANGED <<phase, logs, answered>>

Answer(c) ==
    /\ requests[c] # NoRequest
    /\ requests[c].next = requests[c].count
    /\ answered' = With(answered, requests[c].topic,
                        [count |-> requests[c].count, config |-> requests[c].config])
    /\ requests' = [requests EXCEPT ![c] = NoRequest]
    /\ UNCHANGED <<dirs, phase, logs>>

\* handleProduce(): the first record of a partition.
Produce(tp) ==
    /\ phase = "up"
    /\ tp \in DOMAIN logs
    /\ dirs' = [dirs EXCEPT ![tp].records = TRUE]
    /\ UNCHANGED <<phase, logs, requests, answered>>

-----------------------------------------------------------------------------
\* The process dies.

Dies ==
    /\ phase' = "down"
    /\ logs' = [tp \in {} |-> Defaults]
    /\ requests' = [c \in Clients |-> NoRequest]
    /\ UNCHANGED answered

Crash ==
    /\ phase \in {"loading", "up"}
    /\ Dies
    /\ UNCHANGED dirs

CrashInCreate(c) ==
    /\ requests[c] # NoRequest
    /\ requests[c].next < requests[c].count
    /\ HalfCreated(NextTP(c), requests[c].config)
    /\ Dies

CrashInEnsure ==
    /\ phase = "ensuring"
    /\ HalfCreated(NextOffsets, Neutered)
    /\ Dies

Init ==
    /\ dirs = [tp \in {} |-> Fresh(Defaults)]
    /\ phase = "down"
    /\ logs = [tp \in {} |-> Defaults]
    /\ requests = [c \in Clients |-> NoRequest]
    /\ answered = [t \in {} |-> NoRequest]

Creating(c) ==
    \/ \E t \in Topics, n \in 1 .. MaxPartitions, config \in Asked : Receive(c, t, n, config)
    \/ CreateNext(c)
    \/ CreateRefused(c)
    \/ CreateFails(c)
    \/ Answer(c)
    \/ CrashInCreate(c)

Next ==
    \/ Start
    \/ \E tp \in DOMAIN dirs : LoadPartition(tp)
    \/ CountOffsets
    \/ EnsureOffsets
    \/ \E c \in Clients : Creating(c)
    \/ \E tp \in DOMAIN logs : Produce(tp)
    \/ Crash
    \/ CrashInEnsure

Spec == Init /\ [][Next]_vars

-----------------------------------------------------------------------------
OffsetsDirs == {tp \in DOMAIN dirs : tp[1] = Offsets}

\* Every directory a fault can leave behind is one loadAll() opens.  The broker
\* refuses to start only when it died while it made __offsets for the first time.
StartsAgain ==
    phase = "refused" => Cardinality(OffsetsDirs) \in 1 .. (OffsetsPartitions - 1)

\* A topic that was acknowledged stays whole, with the configuration asked for,
\* whoever else asked for it at the same time and however often the broker dies
\* and starts with its own defaults.
AnsweredIsWhole ==
    \A t \in DOMAIN answered : \A p \in 0 .. (answered[t].count - 1) :
        /\ <<t, p>> \in DOMAIN dirs
        /\ dirs[<<t, p>>].meta = answered[t].config
        /\ phase = "up" =>
            <<t, p>> \in DOMAIN logs /\ logs[<<t, p>>] = answered[t].config

\* The partitions of a topic are numbered from zero without a gap, which the
\* group leader and coordinatorPartition() rely on when they count them.
NumberedFromZero ==
    phase = "up" => \A tp \in DOMAIN logs : \A p \in 0 .. tp[2] : <<tp[1], p>> \in DOMAIN logs

\* What createPartition() left of a topic, whoever else created it and wherever
\* it failed: all of it when it was acknowledged, a beginning of it otherwise.
TopicsAreWhole == AnsweredIsWhole /\ NumberedFromZero

\* A broker that serves has the whole of __offsets, and none of its partitions
\* is ever aged out, except that the last may be when the process died after its
\* segment was made and before its partition.meta was.
OffsetsNeverAge ==
    phase = "up" =>
        /\ Cardinality(PartitionsOf(Offsets)) = OffsetsPartitions
        /\ \A p \in 0 .. (OffsetsPartitions - 2) : logs[<<Offsets, p>>] = Neutered

\* The configuration a partition was first served with is its own for good: a
\* restart never gives it another.
StoredConfigWins ==
    [][\A tp \in DOMAIN dirs : dirs[tp].meta # NoMeta =>
            tp \in DOMAIN dirs' /\ dirs'[tp].meta = dirs[tp].meta]_vars
=============================================================================
