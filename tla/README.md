# DariyaKyu in TLA+

DariyaKyu is a single-node message broker in the manner of Kafka: topics made of
partitions, each a log of record batches on disk; consumer groups with a
coordinator inside the broker; committed positions in a compacted topic
(`__offsets`). This directory holds TLA+ models of its parts, TLC runs that check
them on small instances, and TLAPS proofs for all instances.

Paths below are relative to the repository (`src/` is its root, so the storage
layer is `src/src/storage`).

## 1. The system: components, state, operations

| Component | Source | State | Operations |
|---|---|---|---|
| Group coordinator | `group/group_coordinator` | per group: state, generation, leader, protocol, members with subscription, assignment, session | join, sync, heartbeat, leave, expire |
| Group consumer | `cli/group_consumer`, `apps/dariyakyu_cli.cpp` | member id, generation, assignment, read positions | poll join, sync as leader or follower, heartbeat, commit, leave |
| Assignors | `cli/assignor` | none | range, round-robin, encode, decode |
| Offset store | `group/offset_store` | map key → position, one `__offsets` partition | commit, fetch, forget, replay |
| Commit path | `server/handlers.cpp`, `doConsumeGroup` | – | membership check, then commit |
| Partition log | `storage/log`, `storage/segment` | sealed segments, active segment, log end, graveyard; `.log` and `.index` files | create, open with recovery, append, read, roll, retention, graveyard sweep, replaceSegment, removeSegment, truncateTo |
| Log cleaner | `storage/log_cleaner`, `storage/key_offset_map` | dirty mark per partition, key map of a pass | pick, map keys, rewrite, swap |
| Log manager | `storage/log_manager` | registry of partitions, removed partitions | loadAll, create, remove, maintenance sweep |
| Offset index | `storage/offset_index` | preallocated mapped file, number of entries | create, append, lookup, open, trim |
| Record batches | `storage/record_batch` | none (bytes) | build, parse, decode, stamp, checksum |
| Partition meta | `storage/partition_meta` | one small file per partition | write, parse (two versions) |
| Offsets topic, commit records | `group/offsets_topic`, `group/commit_record` | – | ensure, hash a group; encode, decode |
| Broker, acceptor, connections | `server/…` | accept thread, one thread per connection, three background threads, sockets | start, accept, reap, serve, dispatch, stop |
| Handlers | `server/handlers.cpp` | – | one per API |
| Wire protocol | `protocol/…`, `common/buffer`, `common/varint` | none (bytes) | encode and decode of each message, frames, responses of buffers and file ranges |
| Command line | `cli/client`, `cli/dump`, `apps/…` | correlation id, offset | call, produce, consume, print |

How they interact. A connection thread decodes a request and calls a handler. The
group handlers call the coordinator, which holds one mutex per call; OffsetCommit
asks the coordinator whether the member is current and then, outside that mutex,
calls the offset store, which appends to a partition of `__offsets` under the
log's lock and then updates its map under its own. Produce appends; Fetch gets a
`FileRange` (descriptor, position, length) from `Log::read` and the connection
sends it later with `sendfile`. Three background threads work on the same state:
the broker's sweep expires members, the log manager's sweep rolls, deletes and
closes segments, the cleaner swaps segments of compacted partitions.

What is hard here, and what would make each part correct:

* **Groups.** Clients poll, nobody is parked: a rebalance must always wait for
  somebody who can still come, a generation must be one membership, and a member
  that was left behind must stay fenced – although a group that empties is erased
  and counts generations from one again. Of the consumers whose commits would be
  accepted no two may own a partition.
* **Positions.** A commit is an append and a map update under two locks, with a
  membership check before both, unless nobody has to be checked; its topic is
  compacted under it, and a restart replays what is left: what is served must be on
  disk, the map and the topic must not drift apart, and no record may be skipped.
* **Storage.** Producers, readers, two background threads and crashes at any file
  operation: the directory must always open again, offsets must be given out once,
  a Delete log must have no hole, and a descriptor must stay open as long as a
  range on it may be sent.
* **Compaction.** A pass takes many steps, with a map of limited size and a mark
  that is only in memory, while producers, retention and crashes go on: the newest
  record of a key must survive, an older one must not come back, and passes must
  get somewhere.
* **Partitions and configurations.** A partition is made in three file operations
  and a topic partition by partition, by several clients at once: whatever a fault
  leaves behind must open again, and with the configuration it was made with.
* **Threads.** Most threads of the broker block where they look at no flag:
  `stop()` must wake and join every one, in an order in which nothing is used
  after it ended.
* **Bytes.** The writer and the reader of a message are written apart, lengths come
  from the network, and a batch is stamped, stored, indexed and sent without ever
  being decoded: what a consumer prints must be what was produced.

`PROJECT.json` lists the hazards one by one, each with its line and the properties
that would catch it (or why none does yet).

## 2. Modules

| Module | Models | Role |
|---|---|---|
| `GroupCoordinator` | `group_coordinator.cpp` | the coordinator alone, requests in any order with any id and generation |
| `Assignor` | `cli/assignor.cpp` | both strategies, their loops as recursive functions |
| `AssignorProofs` | | its theorems |
| `ConsumerGroup` | `group_consumer.cpp`, consume loop | extends `GroupCoordinator` and `Assignor` with consumer processes, clock and sweep |
| `OffsetStore` | `offset_store.cpp`, its partition of `__offsets` | commit in two steps, rolls and cleaning, crash, replay |
| `OffsetStoreProofs` | | its theorems |
| `OffsetCommit` | `handlers.cpp`, consume loop, standalone clients | composes `ConsumerGroup` with `OffsetStore` (INSTANCE) |
| `OffsetCommitProofs` | | theorems of `GroupCoordinator`, of `ConsumerGroup` and of the composition |
| `PartitionLog` | `log.cpp`, `segment.cpp`, the sweeps | one partition, Delete or Compact |
| `RecordLog` | – | what a Delete partition promises; `PartitionLog` implements it |
| `PartitionLogProofs` | | its theorems and the refinement |
| `LogCleaner` | `log_cleaner.cpp`, `key_offset_map.cpp` | passes over one compacted partition, with keys and tombstones |
| `KeyedView` | – | what a compacted partition promises; `LogCleaner` implements it |
| `LogCleanerProofs` | | its theorems, the refinement included |
| `TopicRegistry` | `log_manager.cpp`, `Log::create`/`open`, `partition_meta.cpp`, `offsets_topic.cpp`, `handleCreateTopic` | which partitions there are, with which configuration, across faults |
| `TopicRegistryProofs` | | its theorems |
| `BrokerLifecycle` | `acceptor.cpp`, `connection.cpp`, `broker.cpp`, thread loops | every thread from `start()` to `stop()` |
| `BrokerLifecycleProofs` | | its theorems |
| `Varint` | `varint.cpp` | integers of any width in as few bytes as they need, loops as recursive functions |
| `Algorithms` | – | asks `Assignor` and `Varint` one question at a time, and what their answers must be |
| `AlgorithmsProofs` | | the theorems of `Algorithms`, `Varint`, `Segment` and `OffsetIndex` |
| `WireFormat` | `buffer.cpp`, `wire.cpp` | bytes: integers, varints, strings, arrays, field by field |
| `Messages` | `protocol/*.cpp`, `commit_record.cpp`, `partition_meta.cpp` | for each message what is written and what is read |
| `RecordBatch` | `record_batch.cpp` | batches as bytes |
| `OffsetIndex` | `offset_index.cpp`, the read, append and open paths of `segment.cpp` | a segment with its index as files: what each routine makes of them, loops as recursive functions |
| `Segment` | `segment.cpp`, its callers in `log.cpp` and `log_cleaner.cpp` | the life of one segment: appends in steps, failed writes, readers, sealing, compaction, crashes |
| `Exchange` | `frame.cpp`, `response.cpp`, `client.cpp`, `connection.cpp`, `handlers.cpp`, `doConsume` | a request, its answer, and what the client makes of it, in bytes |
| `MCAlgorithms` | | asks `Algorithms` and the modules of bytes every small question, and lets a `Segment` live |
| `MC*` | | values for constants that a `.cfg` cannot write, symmetry sets |

A definition introduced by a comment that begins with "Mutant:" is a plausible
bug in the definition after it; `PROJECT.json` names the property that notices it.

### Correspondence with the code

**GroupCoordinator.** `groups` is `groups_`, one record per existing group;
`issued` stands for `nextMemberId_`. Each public method is one action because it
holds `mutex_` throughout. Times are ages in ticks that stop at the session
timeout. Answers (`JoinReply`, `SyncError`, `HeartbeatError`) are operators, used
by the modules that have clients.

**ConsumerGroup.** One process per consumer, with the program counter of
`join()` and of the consume loop. The client is synchronous on one connection and
does not reconnect (a lost connection ends the process), so a call is one step
and nothing else of that consumer happens meanwhile. A tick is one 20 ms sleep.
`Prompt` says whether a consumer acts in the tick in which it wakes; without it a
consumer is arbitrarily slow, which for safety includes a crashed one. The code
allows 50 rounds (1 s) and sessions of 10 s; the runs keep the order of the two.

**OffsetStore.** `Admit`, `AppendRecord`, `Publish` are the steps of `commit()`
between its locks; `Crash`, `BeginReplay`, `ReplayRecord`, `Serve` are death and
start of the broker. All keys of a group are in one `__offsets` partition, and
partitions share nothing, so one is enough. `log` is what was ever appended to it,
`kept` the offsets the cleaner has left, `bases` the segments; `Clean` drops any
records it may (`LogCleaner` has the passes that decide). A replay reads from the
segment its cursor is routed to and from no other (`Readable`), and ends when that
has nothing left, as `replayPartition()` does at an empty range. `strayed` is
history: the keys for which the map may differ from the topic, and why.

**OffsetCommit.** `OffsetStore` is an instance, its writers the handler threads of
consumers and of standalone clients. `task` is the call a consumer waits for. A
fetch is two steps, the log start that will be reported (`FetchArrives`) and the
read (`FetchAnswered`, `FetchAnsweredOutOfRange`), with retention (`Retain`)
wherever it likes; after the second kind the client resumes at the log start it was
told and commits that without having printed anything, as `fetchOnce()` and its
caller do. A commit is the check (`CommitArrives`) and then the steps of the store,
with any time between them; a commit without member and generation skips the check
(`StandaloneCommits`). `Covered` is the one thing assumed of standalone clients:
they commit positions in front of which everything was dealt with. "Printed" is
handed to `printf`; the stream is flushed after the commits of a pass
(`dariyakyu_cli.cpp:377`), so a process that dies in between loses lines that were
committed.

**PartitionLog.** `files` and `indexes` are the directory, `sealed`, `active`,
`logEnd`, `graveyard` the members of `Log`, `appending` the batch between
stamping and writing (the append lock is held, the segments lock is not),
`ranges` the FileRanges connections hold. A batch has its offsets, its maximum
timestamp and whether all its bytes are there; it counts one unit of size. The
index is represented by where its last entry points (`Tail`), which is all that
opening a segment takes from it. Descriptor numbers matter only in whether the
one in a range still means the file: `Reuse` says whether the number that sealing
frees is the one the file gets when it is opened again. A crash is the death of
the process (the code does not fsync, by its decision 14, so a power cut is out of
scope) and may come inside a write, a roll, retention, a removal and a swap; `mixed`
says that a swap was cut between its two renames and left an index that describes
the old file. Each range knows what became of its descriptor: `open`, closed by a
roll (`rolled`), or with its segment's last copy (`closed`). `Lag` is the
age of the time a background pass works with, `Skew` how far producers' clocks
are off. `highWatermark_` equals the log end because nothing calls
`setHighWatermark`.

**LogCleaner.** `segments` is the partition as sets of records with their keys,
`mark` the entry of `firstDirty_`, `pass` the locals of `cleanLog()`: the key map,
how far it got, the segments still to rewrite and the time the pass began. The
scans of phase one are one step (sealed segments do not change, and a scan that
finds its file gone throws before anything happened); each segment of phase two is
one step, its rewrite goes to a file of its own and the swap is atomic under the
lock (a crash between its two renames is in `PartitionLog`). Retention takes
segments by age and then by bytes. Sizes are counted in records. Producers
append and roll, retention deletes, and the process dies between any two of these
steps.

**TopicRegistry.** `dirs` is the data directory, `logs` is `logs_`, `requests` the
CreateTopic each connection thread is working on. `createPartition()` holds the
exclusive lock, so that without a fault it is one action; `Halves` are the
directories left when a file operation fails or the process dies. `answered` is
history: what clients were told. A configuration is a model value.

**BrokerLifecycle.** One program counter per thread: `acceptor`, `conns[c]`,
`threads[w]`, and `main` for the thread in `Broker::stop()`. `gone` and `shut` say
who ended a connection. `acceptor = c` is the window between the look at
`stopping_` and the registration of the connection.

**Segment, OffsetIndex.** `OffsetIndex` has the routines, from the binary search of
`lookup()` to the scans of `read()`, `deriveNextOffset()` and `recover()`, each as
the function of file and index that it computes; a batch is its two offsets and its
size, the index file a sequence of entries with zeroes behind the last one.
`Segment` has the state: `phase` (active, sealed, cleaned), `seg` (batches, size,
index, next offset), `tail` (what a failed append left in the file behind its
size), `end` (`Log`'s end offset), `step` and `incoming` (how far
`append()` is and with what), `readers` (how far each `read()` is). The steps of an
append are those another thread can tell apart: the index entry (`BeginAppend`), the
bytes and the size (`WriteBytes`, or `FailToWrite` when `pwrite` throws after any
part of them), the end offset (`Publish`). A read checks the end offset (`StartRead`), takes the size
(`TakeSize`) and then asks the index and scans (`Scan`). The log holds its segments
lock shared over both and exclusively over a roll and a swap, so `Seal`, `DieInRoll`
and `Compact` need everybody out. `DieAndRecover` and `DieAndReopen` are death at any
moment and the next start. A segment sealed with a `tail` is `damaged`
(`SealTheRest`) and not followed further: its file is opened with its real length,
and what happens next depends on which bytes are there. `Compact` replaces the batches by any that keep some of
the records, each with its offset and no batch larger than it was.

**Varint, WireFormat, Messages, RecordBatch, Exchange.** Bytes are sequences
of numbers below 256. A format is a sequence of field types; for every message the
one its encoder writes and the one its decoder reads are translated apart (`X_W`,
`X_R`), in the order of the calls in the code, and a read that throws is `Refused`.
The varint routines have the width of the type and the payload of a byte as
parameters, as the code has the type as a template parameter; `WriteTurn` and
`ReadTurn` are one turn of the loops of `writeBase128` and `readBase128`, whose states
`WrittenAfter` and `ReadAfter` list. `Exchange` strings the
real functions together: the client's frame is read by `Serve`, dispatched, the
batch stamped inside the frame, appended, indexed, read back as a range and sent
behind the buffers of the response; `ConsumeTurn` is one turn of `doConsume()`.

## 3. Runs

All passing runs finish in at most about two minutes with two workers.

| Run | Result | Question and answer |
|---|---|---|
| `group_coordinator` | pass | Two groups, three ids, any request in any order, generations up to 2: rebalances wait for somebody, settled groups are unanimous, one generation is one membership, fenced stays fenced. |
| `consumer_group_live` | pass | Two consumers, a crash, commits, leaves: a member whose commit would be accepted owns what the coordinator stored for it, a stable group covers its topics, and the group settles. |
| `commit_in_rebalance` | violation | "RebalanceInProgress is not a failure": `commit()` throws on it. |
| `offset_store` | pass | Any thread, any key, with rolls, cleaning and crashes: what is served was logged, and differs from the last commit in the topic for three reasons only. |
| `offset_commit` | pass | End to end, with retention, resets to the log start, stalled handlers and a standalone client: at-least-once and exclusive ownership. |
| `partition_log` | pass | Delete policy, clocks and passes that are a unit off: reopens after any crash, no hole, stamped batches fit, young records stay, buried descriptors outlive ranges, implements `RecordLog`. |
| `partition_log_compact` | pass | Compact policy: reopens unless a swap was cut in two, every survivor is found. |
| `compacted_hole` | violation | A read of a removed offset at the end of a segment gets nothing instead of the next survivor. |
| `log_cleaner` | pass | A key map of one key, tombstones, retention by age and by size, failing passes, restarts: one record per key below the mark, implements `KeyedView`, catches up. |
| `topic_registry` | pass | Two clients, full disks, crashes: starts again, acknowledged topics are whole, `__offsets` never ages, stored configurations win. |
| `broker_lifecycle` | pass | Three clients that do what they like: `stop()` leaves nothing behind, keeps its order and returns; finished connections are closed. |
| `algorithms` | pass | Every small input of what is computed: assignors, messages, error answers, varints, produce to consume with retention in between; and the life of a segment, in which the index is only a hint. |

The violations are disagreements between the code and its own documents or
comments; `PROJECT.json` quotes both sides.

**Where the code falls short.** The passing runs contain the following
behaviours. Their properties are stated so that they hold with them, and the last
column says how; TLC finds the stronger statement that the source makes violated.

| What the code does | Against | Property that allows for it |
|---|---|---|
| two commits of one key append in one order and update the map in the other (`offset_store.cpp:59`) | "The map IS the answer, and the topic is how it survives a restart" (`offset_store.hpp:17`) | `DifferencesAreExplained`, by `strayed` |
| a replay ends at the first hole the cleaner left at the end of a segment (`offset_store.cpp:99`, `offsets_topic.cpp:61`), and forgets what comes after it | "a replayed map and a compacted topic agree by construction" (`offset_store.cpp:133`) | `DifferencesAreExplained`, by `strayed` |
| a handler thread that stalls between check and append commits for a member expired since (`handlers.cpp:393`); positions may go backwards | "A zombie … would otherwise move a position that another member now owns" (`handlers.cpp:407`) | none claims it; `AtLeastOnce` holds |
| a consumer thrown out of range prints nothing, resumes at a log start that may be gone again, and commits it (`dariyakyu_cli.cpp:334`); without `--follow` it ends the pass with nothing read | – | `AtLeastOnce`: "printed or deleted" |
| lines are committed before the stream is flushed (`dariyakyu_cli.cpp:377`) | "a crash between the two replays records rather than skipping them" (`dariyakyu_cli.cpp:372`) | `AtLeastOnce` speaks of what was handed to `printf` |
| a roll closes the descriptor of the segment it seals and opens the file again (`segment.cpp:508`); unless the number is the same, ranges on it fail | the delay "is the window in which an already-issued FileRange can still be sent" (`log.hpp:98`) | `RangeOutlivesSegment` leaves out what a roll closed |
| a pass buries segments with the time it began (`log_cleaner.cpp:364`), so their descriptors close early | the same | `RangeOutlivesSegment` subtracts `Lag` |
| the largest timestamp of a segment is that of the part after its last index entry (`segment.cpp:129`), and clocks differ | – | `YoungRecordsStay` subtracts `2 * Skew` |
| a crash between the two renames of a swap leaves a new `.log` with the old `.index` (`log.cpp:463`) | – | `Reopens` claims nothing once `mixed` |
| `applyRetention()` ignores the cleanup policy (`log.cpp:369`) and takes newest values by age and by bytes | Compact keeps the newest record of every key (`log.hpp:105`, `DESIGN.md:873`) | `NewestIsKept`: `KeyedView` lets the oldest retire |
| the log start in a fetch answer is read before the records (`handlers.cpp:252`); with retention in between the consumer is told its offset is deleted and takes it for past the end | the two offsets tell the cases apart (`handlers.cpp:249`, `dariyakyu_cli.cpp:288`) | `ConsumedIsProduced` (`TurnsAsSent`) |
| the index entry of a failed append stays (`segment.cpp:456`); sealed then, the segment is taken for empty, and a Delete log does not open again (`log.cpp:145`) | – | `IndexIsOnlyAHint` leaves out `Dangling` |
| the bytes of a failed append stay behind the size (`file_handle.cpp:81`), and a shorter append does not cover them; sealed then, the file is opened with its real length and the rest read as a batch: the roll throws with `active_` empty (`log.cpp:296`), or a batch appears that was never sent | – | `IndexIsOnlyAHint` claims nothing once `damaged` |
| a broker that died while it made `__offsets` for the first time refuses to start until the directories are removed by hand (`offsets_topic.cpp:40`) | – | `StartsAgain` leaves it out |
| the last partition of `__offsets` keeps the default retention when the process died before its `partition.meta` (`log.cpp:79`) | – | `OffsetsNeverAge` leaves it out |
| a segment with more keys than the key map holds is never got past (`log_cleaner.cpp:228`) | – | `CatchesUp` leaves out `Oversized` |
| only the next accept closes a finished connection (`acceptor.cpp:62`) | – | `HangsUp` needs clients that keep coming |

These need other values of the constants than the passing runs have:

| Start from | Change | Violated | What the code does |
|---|---|---|---|
| `ConsumerGroupCommit.cfg` | `Consumers = {c1, c2, c3}`, `Traffic = FALSE` | `RebalanceIsNotAFailure` | a follower polls sync with its old generation as long as the others poll join, and one of those gives up (`group_consumer.cpp:143`) |
| `ConsumerGroupCommit.cfg` | `MaxCrashes = 1`, `MaxRounds = 4`, `Traffic = FALSE` | `RebalanceIsNotAFailure` | a consumer dies and another joins: it polls for a second (`group_consumer.cpp:21`), the dead session lasts ten, so the joiner throws, although "either can die" (`dariyakyu_cli.cpp:343`) |
| `ConsumerGroupLive.cfg` | `TopicsOf <- TwoTopics` | `OwnsWhatWasAssigned` | the leader asks Metadata for its own topics only (`group_consumer.cpp:45`) |
| `BrokerLifecycle.cfg` | `Loopback = FALSE` | `StopReturns` | `stop()` wakes the accept thread through 127.0.0.1 (`acceptor.cpp:79`); bound to another address it waits for the next client |

DESIGN.md:1651 says the generation is bumped on entry to PreparingRebalance; the
code bumps it on completion (`group_coordinator.cpp:50`), and so does the model.

**Bounds.** Two groups are needed for an id to be known in one and used in the
other, three members for one to be left behind while two settle, two generations
for a stale one. Two consumers and one crash give every handover of a partition;
three are needed for a rebalance to start inside another. In `OffsetStore` two
threads and two keys let commits of one key overlap while another is left alone, and
three records in segments of any size let the cleaner leave a hole in front of a
commit. In `OffsetCommit` two records per partition are one printed and one not, a
standalone client rewinds to the first, and two commits are one and the late one, or
that of the next owner, that meets it (the proof has any number). In
`PartitionLog` four offsets in batches of one or two with segments of two batches
give up to three segments with something in them, by size or by age, so that
retention, routing and recovery meet a first, a middle and a last one; an index entry per batch
makes the tail of a segment a proper part of it; three ticks let a segment age, be
buried and its descriptor close, with clocks and passes one tick off. One reader is
enough because readers only share what they do not change (the proofs have any
number, and any bounds).
In `LogCleaner` four records in segments of two with a map of one key give passes
that map a part of the dirty segments and of one segment, a clean segment with an
older value of a mapped key, and tombstones that outlive their values; two ticks
pass both retentions. In `TopicRegistry` three partitions give a first, a middle
and a last one to fail at, and two clients a race; topics share nothing but
`logs_`, so one topic is enough. In `BrokerLifecycle` three clients are one being
accepted, one served and one finished. In `MCAlgorithms` the assignors get up to
three members, two topics and four partitions; messages arrays of up to two
elements with zero, small, three-byte and negative numbers, cut at every byte; the
varint routines every sequence of bytes of a type of 8 bits in groups of 3, which
leaves the last byte more room than the type has, as 32 in groups of 7 does, up to
one byte more than a number of the type may take;
exchanges one or two partitions in a request, hosted or not, every kind of offset
before, in and after the log, and retention before a fetch, within it, or both. Its segment rolls at five bytes, with
batches of one record in one byte or two in three, so that what is left of a failed
append outlasts a shorter one, an index of one or two entries
and an entry every two bytes, so that the index is full before the segment is,
batches lie between entries, and a failed append leaves an entry behind; one reader,
because readers change nothing, asks for no bytes or for more than a batch.

**Fairness.** `consumer_group_live`: weak fairness of each consumer's loop (a
process that is alive is scheduled; a crashed one takes no step), of the clock,
and of the broker's sweep thread (a timed loop). Nothing is assumed of joins,
leaves, commits and crashes. The generation bound is not reached before members
and crashes run out, so it does not help the property. `Settled` counts a consumer
that ended, as the code can only stop helping those; that consumers end when they
should not is what `commit_in_rebalance` and the table show. `log_cleaner`: the
cleaner thread's loop, which is timed and survives exceptions; whether a pass fails
is left open, and `CatchesUp` allows for passes that fail again and again.
`broker_lifecycle`: every thread that is not blocked moves. Clients owe nothing,
so `Reply` (a write blocks while the client does not read) and reading a request
are not fair, nor is `accept()` failing.

## 4. Proofs

Checked by TLAPS for every value of the constants that satisfies the named
assumptions; each theorem that names a property checked by a run says so in
`PROJECT.json`.

**GroupCoordinator** (in `OffsetCommitProofs`): `TypeCorrect`,
`RebalanceWaitsForSomebody`, `SettledGroupsAreUnanimous`,
`GenerationFixesMembership`, `FencingIsForGood`. The inductive invariant `IndInv`
says of each group at once what its state implies about members, leader,
rejoined flags and generation, and that every member id was issued and is in one
group; the fencing theorem needs the last part, because a pair of id and
generation could come back to life only if an id did.

**Assignor** (`AssignorProofs`): for any finite set of members, any
subscriptions and any partition counts, `RangeHandsOutOnce` and
`RoundRobinHandsOutOnce` (together `AssignHandsOutOnce`): every partition somebody
wants has exactly one owner, which wants it, and nothing else is handed out.
`RangeIsInBlocks`: a topic's partitions go to its members in order, the earlier
ones getting as many as the later ones or one more; `RoundRobinShares`: where all
want all, totals differ by at most one. The loops are recursive functions on an
interval; that each has the value its body says, and every loop invariant, is
shown by least counterexample (`AllUpTo`), as the library's induction theorems
take an operator. Range rests on where `next` stands after i members
(i·each + min(i, extra), lemmas about division), round-robin on `DealOK` and
`EvenOK`, what the vectors and `next` are like after i partitions were dealt.

**OffsetStore** (`OffsetStoreProofs`): `TypeCorrect`, `ServedIsLogged` and
`DifferencesHaveAReason`, for any threads committing any keys. Its invariant has
four parts: what the cleaner leaves says the same of every key as the whole topic
(`CompactionIsExact`: it drops what is replaced, and a tombstone only when nothing
older is left); while the broker replays, the map is what the records in front of
the cursor leave (`ReplayIsPrefix`); of a key that has not strayed at most one
append waits for its map update, and its record is the key's last (`InStep`); and
every record is in a segment (`Routable`), so that a replay that ends has read all
that is not behind a hole.

**ConsumerGroup and OffsetCommit** (`OffsetCommitProofs`): any number of
consumers, partitions, timeouts, rounds and crashes.

* `ExclusiveOwners` needs `CInv`: the coordinator's `IndInv`; ids belong to one consumer (`OwnIds`); stored
  assignments do not overlap (`Disjoint`); and for every consumer `ConsumerInv`,
  what it may still believe: a leader that would not be refused has the
  present members and subscriptions in its view, and a consumer that is in the
  present generation owns what is stored for it, because the group still waits for
  it (`Waits`). That the leader's answer does not overlap is `AssignHandsOutOnce`.
* `OwnedIsAssigned` adds `CoverInv`, that a stable group covers what its members
  want. Hypothesis `SameTopics` (all consumers were started with the same topics);
  it is needed, as the `TwoTopics` row of section 3 shows.
* `PrintedBeforeCommitted`: at least once. `PathInv` says that in front of nothing
  in the map, in the topic, in a consumer's memory or under way is a record that was
  neither printed nor deleted, and of a fetch under way that the log start it will
  report was one: log starts only move forward. It holds however long handlers stall
  and whatever standalone clients repeat.
* `CommitsThroughStore`: every step of the composition is a step of `OffsetStore`
  or leaves it alone, so the theorems of `OffsetStoreProofs` hold in it.

**PartitionLog** (`PartitionLogProofs`): the heart is `Directory(f, i, top)`, the
shape of the directory independent of whether the process runs: every segment but
the newest is non-empty, has its index, holds complete batches that do not
overlap and end below every later segment – and on a Delete log is dense and ends
where a segment begins; the newest is dense up to its end, with at most torn
bytes after it. Lemmas say that a roll (`AddSegment`), a write (`AddBatch`,
`ChangeNewest`), deletions (`DropSegments`) and swaps (`SwapSegment`) keep that
shape, so every crash leaves it, and that `open()` accepts it
(`DirectoryOpens`) and `recover()` keeps exactly the complete batches
(`RecoveredIsComplete`). `DoomedAreOldest` shows that the two passes of retention
take a prefix; it needs that there are finitely many batches, which follows from
their first offsets being distinct (`FinitelyMany`). Theorems: `TypeCorrect`,
`AlwaysReopens`, `StampAlwaysFits`, `SurvivorsAlwaysFound`,
`EveryOffsetAlwaysFound`, and `RangesOutliveSegments`. `AlwaysReopens` says nothing
after a swap that was cut in two (`mixed`). The extra
invariant `Handles` of `RangesOutliveSegments` says that a buried descriptor is never
again the one a read is given and was buried, by a clock at most `Lag` behind, no
earlier than any range on it was issued; what a roll closes it tells apart and does
not cover.
`YoungRecordsAreKept`: its invariant `InTime` says that timestamps do not decrease
along a segment by more than two producers' clocks are apart, but for batches that
have none, so that what is behind the last index entry tells the largest one of the
whole segment within `2 * Skew` (`TailTellsAll`). `DeleteLogKeepsRecords`: a Delete partition
implements `RecordLog`.

**LogCleaner** (`LogCleanerProofs`): `TypeCorrect`, `CleanedIsClean`
(`OnePerKeyBelowMark`) and `CompactionKeepsNewest`, the refinement of `KeyedView`,
for any keys and any budget of the key map. `PassInv` says of a pass half done: up
to `through` everything from the mark on is in the map; rewritten segments have
nothing older than what the map holds; and as long as a segment not yet rewritten
has an older record of a key, the mapped record itself is still there – retention
takes segments from the old end, so what could be lost is lost after what it
replaces. `Boundary` keeps mark and `through` between segments through every roll
and every deletion.

**TopicRegistry** (`TopicRegistryProofs`): `TypeCorrect`, `BrokerStartsAgain`,
`TopicsStayWhole`, `OffsetsNeverAgeOut`, `ConfigsAreForGood`. The invariant: a
directory was filled in the order of `Log::create()`, hosted partitions have what
is in their `partition.meta`, partitions are numbered without gaps on disk and –
once loaded – in memory, what a client was told and what its request got past is
there, and of `__offsets` every directory but the last is `Neutered`.

**BrokerLifecycle** (`BrokerLifecycleProofs`): `TypeCorrect`, `StopKeepsItsOrder`.
The invariant: after the accept thread was joined nobody is in the backlog, and a
background thread ends only when it was told to, the next one being told only when
it has been joined.

**Assignors and varints as asked** (`AlgorithmsProofs`): `AssignorsAreFair` and
`VarintsKeepEveryBit` state the two invariants of `Algorithms` that the run checks, for
any members and topics and for types and groups of any number of bits. The
invariant `AlgorithmsInv` only says that an answer is the one to its question; the
first theorem is then the four of `AssignorProofs`, the second two facts about loops.
`DecodedIsCarried`: whatever the bytes, a number that `readBase128` accepts is the sum
of its payloads, because before each byte the value lies below both the power of the
bits read so far and that of the type (`ReadOK`), and a payload that passes the check
on the last byte keeps it there, so nothing wraps. `VarintRoundTrip`: wherever in a
buffer the bytes of a number lie, it is read back, and reading goes on right behind
it. For that `EncodedIs` says which group of bits each byte carries and that
there are never more of them than the type allows, and `ReadsNextGroup` that after
each byte the value read and what the writer had left make up the number
(`Halfway`). Powers of two are a recursive function too; `TwoToSum`, `TwoToGrows` and
the lemmas on division carry the arithmetic.

**Segment** (`AlgorithmsProofs`): for batches of any sizes, any capacity and interval
of the index and any number of readers, `SegmentInvariant` and
`SegmentIndexIsOnlyAHint`. The inductive invariant `SegmentInv` (checked by TLC
first) says that the batches follow one another by offset, that the entries of the
index are starts of batches in increasing order – but for one that may be ahead of
the bytes – with zeroes behind them, that what the appender counts since the last
entry is what `recover()` would count, and of each reader that the batch it looks for
begins below its limit. Bytes behind the size need no invariant: nothing looks at
them before a recovery cuts them off or a seal gives the segment up
(`SealTheRest`). `IndexIsOnlyAHint` is about what loops compute, so most of
the work is there: a loop is a recursive function from the number of turns to its
state, `LoopHasStates` shows that it has the states its body says and `AllUpTo`
that an invariant holds at each of them, both by the least counterexample. On these
rest `CountEntriesFinds` (the binary search that tells entries from preallocated
zeroes), `LookupFinds` (the last entry at or before the offset), `ReadIsServed` (from
any such entry the scan comes to the batch with the offset, and the range covers it
and stays below the limit), `RecoveredIsRewritten` (the index that recovery builds is the one
that writing the same batches builds). What holds the two together is
`AppendedIsBuilt`: adding a batch and rebuilding commute.

**Only model-checked.** `GroupSettles`, `CatchesUp`, `StopReturns` and `HangsUp`,
which are liveness properties and out of the prover's reach. The byte-level
properties of `MCAlgorithms` `MessagesSurvive`, `ErrorsStayErrors` and
`ConsumedIsProduced`, whose modules are recursive over the structure of formats and
data: what they compute for every input takes induction over data.

## 5. Not modelled, and why

* Power loss: the code does not fsync and does not claim to survive one.
* Failed system calls in `PartitionLog` (a failed unlink, `segment.cpp:285`). A
  write that fails, with any part of its bytes in the file, is in `Segment`.
* What becomes of a segment sealed over the bytes of a failed append, and of a
  partition after a swap that was cut in two with an index in place: both depend on
  bytes that are read as what they are not. The models have the steps that lead
  there (`SealTheRest`, `CrashInReplace`) and claim nothing after them.
* Segments of 4 GiB and more: `SegmentAssumption` says that a segment and one batch
  more fit 32 bits, as the default of a gigabyte and the frame limit do. A topic can
  be configured with larger ones, whose appends throw from there on
  (`segment.cpp:415`).
* Compaction that makes a batch larger: `Compact` keeps or lowers each size.
* `truncateTo`, `setHighWatermark`, `removePartition` and the sweep of removed
  partitions: only tests call them.
* The choice of a partition among several (`pickDirtiest`): `LogCleaner` has one.
* Metadata and FindCoordinator handlers, `coordinatorPartition`: an answer computed
  from what is hosted, or a hash. Their messages are in `Messages`.
* The value of a CRC, wrapping of 32- and 64-bit numbers outside varints (lengths
  and offsets stay far below), and values of `int64` beyond TLC's integers.
* Argument parsing, wording of messages, `describe` and the dump tool; file
  handles, mapped files and error types, which wrap the system.

## 6. Plan

Done: every module of section 2, and the proofs of section 4: each safety
invariant, action property and refinement that a run checks is a theorem, but for
three properties of `MCAlgorithms` about bytes.

Next: failed unlinks in `PartitionLog`; several partitions in `LogCleaner`.
