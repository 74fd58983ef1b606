---------------------------- MODULE MCAlgorithms ----------------------------
(***************************************************************************)
(* The parts of the system that compute a result from their arguments,     *)
(* each on every small input: the assignors, the messages and files, the   *)
(* varints, a segment with its index, and a produce request followed by a  *)
(* fetch.  A behaviour picks a question and computes its answer, a request *)
(* at a time where there are several.                                      *)
(***************************************************************************)
EXTENDS Algorithms, Exchange, Segment

CONSTANTS
    Seeds                      \* messages: the values in their fields, and -1

mcvars == <<bench, question, answer, segvars>>

MCBatchShapes == {[records |-> 1, size |-> 1], [records |-> 2, size |-> 3]}

-----------------------------------------------------------------------------
(* The formats of every message, written and read *)

Formats ==
    [RequestHeader |-> <<RequestHeader_W, RequestHeader_R>>,
     ResponseHeader |-> <<ResponseHeader_W, ResponseHeader_R>>,
     MetadataRequest |-> <<MetadataRequest_W, MetadataRequest_R>>,
     MetadataResponse |-> <<MetadataResponse_W, MetadataResponse_R>>,
     ListOffsetsRequest |-> <<ListOffsetsRequest_W, ListOffsetsRequest_R>>,
     ListOffsetsResponse |-> <<ListOffsetsResponse_W, ListOffsetsResponse_R>>,
     CreateTopicRequest |-> <<CreateTopicRequest_W, CreateTopicRequest_R>>,
     CreateTopicResponse |-> <<CreateTopicResponse_W, CreateTopicResponse_R>>,
     ProduceResponse |-> <<ProduceResponse_W, ProduceResponse_R>>,
     FetchRequest |-> <<FetchRequest_W, FetchRequest_R>>,
     FetchResponse |-> <<FetchResponse_W, FetchResponse_R>>,
     FindCoordinatorRequest |-> <<FindCoordinatorRequest_W, FindCoordinatorRequest_R>>,
     FindCoordinatorResponse |-> <<FindCoordinatorResponse_W, FindCoordinatorResponse_R>>,
     JoinGroupRequest |-> <<JoinGroupRequest_W, JoinGroupRequest_R>>,
     JoinGroupResponse |-> <<JoinGroupResponse_W, JoinGroupResponse_R>>,
     SyncGroupRequest |-> <<SyncGroupRequest_W, SyncGroupRequest_R>>,
     SyncGroupResponse |-> <<SyncGroupResponse_W, SyncGroupResponse_R>>,
     HeartbeatRequest |-> <<HeartbeatRequest_W, HeartbeatRequest_R>>,
     HeartbeatResponse |-> <<HeartbeatResponse_W, HeartbeatResponse_R>>,
     LeaveGroupRequest |-> <<LeaveGroupRequest_W, LeaveGroupRequest_R>>,
     LeaveGroupResponse |-> <<LeaveGroupResponse_W, LeaveGroupResponse_R>>,
     OffsetCommitRequest |-> <<OffsetCommitRequest_W, OffsetCommitRequest_R>>,
     OffsetCommitResponse |-> <<OffsetCommitResponse_W, OffsetCommitResponse_R>>,
     OffsetFetchRequest |-> <<OffsetFetchRequest_W, OffsetFetchRequest_R>>,
     OffsetFetchResponse |-> <<OffsetFetchResponse_W, OffsetFetchResponse_R>>,
     CommitKey |-> <<CommitKey_W, CommitKey_R>>,
     CommitValue |-> <<CommitValue_W, CommitValue_R>>,
     Assignment |-> <<Assignment_W, Assignment_R>>,
     PartitionMetaV1 |-> <<PartitionMeta_W(1), PartitionMeta_R(1)>>,
     PartitionMeta |-> <<PartitionMeta_W(2), PartitionMeta_R(2)>>]

Responses == {"ListOffsetsResponse", "MetadataResponse", "CreateTopicResponse",
              "ProduceResponse", "FetchResponse", "FindCoordinatorResponse",
              "JoinGroupResponse", "SyncGroupResponse", "HeartbeatResponse",
              "LeaveGroupResponse", "OffsetCommitResponse", "OffsetFetchResponse"}

\* Kept in a file or inside another message: the decoder refuses trailing bytes.
Whole == {"CommitKey", "CommitValue", "Assignment", "PartitionMeta", "PartitionMetaV1"}

Decode(name, bytes) ==
    CASE name = "Assignment"                          -> DecodeAssignment(bytes)
      [] name \in {"PartitionMeta", "PartitionMetaV1"} -> DecodePartitionMeta(bytes)
      [] name \in {"CommitKey", "CommitValue"}        -> ReadWhole(Formats[name][2], bytes)
      [] OTHER                                        -> ReadFields(Formats[name][2], bytes, 0)

\* A value of the type, with `n` elements in its arrays; a negative seed makes
\* every number in it negative.
RECURSIVE Sample(_, _, _)
SampleFields(types, seed, n) ==
    [i \in DOMAIN types |-> Sample(types[i], IF seed < 0 THEN seed ELSE seed + i, n)]
Sample(type, seed, n) ==
    CASE type.kind = "int"      -> IF type.width = 1 THEN seed % 2 ELSE seed
      [] type.kind = "exactly"  -> type.v
      [] type.kind = "bool"     -> seed % 2 = 0
      [] type.kind \in {"string", "bytes"} -> [k \in 1..(seed % 3) |-> (seed + k) % 256]
      [] type.kind = "array"    -> [k \in 1..n |->
                                        SampleFields(type.of, IF seed < 0 THEN seed ELSE seed + 5 * k, n)]
      [] type.kind = "override" -> IF seed % 2 = 0 THEN None ELSE seed
      [] type.kind = "limit"    -> IF seed % 2 = 0 \/ seed < 0 THEN None ELSE seed
      [] type.kind = "flag"     -> <<None, TRUE, FALSE>>[1 + (seed % 3)]

\* What must not get through: a committed position or a fetch size below zero,
\* a partition below zero or without a topic.
Legal(name, v) ==
    CASE name = "OffsetCommitRequest" -> \A t \in Range(v[4]) : \A p \in Range(t[2]) : p[2] >= 0
      [] name = "FetchRequest"        -> \A t \in Range(v[3]) : \A p \in Range(t[2]) : p[3] >= 0
      [] name = "CommitValue"         -> v[2] >= 0
      [] name \in {"PartitionMeta", "PartitionMetaV1"} -> v[3] # <<>> /\ v[4] >= 0
      [] OTHER                        -> TRUE

\* What the other side is to make of it: an override that is not positive is no
\* override, and a v1 partition is a Delete partition.
Understood(name, v) ==
    CASE name = "CreateTopicRequest" ->
            <<[i \in DOMAIN v[1] |-> [j \in 1..6 |->
                 IF j \in 3..5 /\ v[1][i][j] # None /\ v[1][i][j] <= 0 THEN None ELSE v[1][i][j]]],
              v[2]>>
      [] name = "PartitionMetaV1" ->
            v \o <<0, 86400000>>
      [] OTHER -> v

-----------------------------------------------------------------------------
(* Requests *)

\* A record with an empty value, a tombstone and a value, and what the cleaner
\* leaves of three records.
Record(delta, key, value, headers) ==
    [ts |-> 100 + delta, delta |-> delta, key |-> key, value |-> value, headers |-> headers]
Sent == {<<Record(0, None, <<>>, <<>>)>>,
         <<Record(0, <<7>>, None, <<>>), Record(1, <<8>>, <<1, 255>>, <<>>)>>,
         <<Record(0, <<>>, <<3>>, <<>>), Record(2, None, <<4>>, <<<<<<9>>, None>>>>)>>}

Topic == <<84>>
ClientId == <<67, 67>>
Start(p) == 5 * p
OldLogs == [tp \in {<<Topic, 0>>, <<Topic, 1>>} |-> EmptyLog(Start(tp[2]))]

\* Which records go to which partition in one request; 9 is not hosted.
Produced == UNION {[1..n -> {0, 1, 9} \X Sent] : n \in 1..2}

ProduceStream(produced) ==
    Request(Api.Produce, 1, ClientId, WriteFields(ProduceRequest_W,
        <<-1, 0, <<<<Topic, [i \in DOMAIN produced |->
                        <<produced[i][1], Build(produced[i][2])>>]>>>>>>))

\* Both partitions are fetched, partition 1 from the offset.
FetchStream(offset, maxBytes) ==
    Request(Api.Fetch, 2, ClientId, WriteFields(FetchRequest_W,
        <<0, 0, <<<<Topic, <<<<0, Start(0), maxBytes>>, <<1, offset, maxBytes>>>>>>>>>>))

\* Both ends of both partitions, as resolveStart() asks for them.
ListStream ==
    Request(Api.ListOffsets, 3, ClientId, WriteFields(ListOffsetsRequest_W,
        <<<<<<Topic, <<<<0, -2>>, <<0, -1>>, <<1, -2>>, <<1, -1>>>>>>>>>>))

\* Retention raises the start of partition 1 by n, to no more than its end.
Raised(logs, n) ==
    [logs EXCEPT ![<<Topic, 1>>].start =
        IF @ + n <= LogEnd(logs[<<Topic, 1>>]) THEN @ + n ELSE @]

MaxFrame == 4096

\* The client reads the answer to call `id`.
Heard(answers, done, id, format) ==
    [logs    |-> done.logs,
     answers |-> Append(answers, Then(Answer(done.stream, id, MaxFrame),
                                      LAMBDA b : ReadFields(format, b.value, 0)))]

-----------------------------------------------------------------------------
Init ==
    /\ answer = Unanswered /\ SegmentInit
    /\ \/ AskAssignor \/ AskVarint
       \/ bench = "message" /\ question \in [name : DOMAIN Formats, seed : Seeds \cup {-1}, n : 0..2]
       \/ bench = "error" /\ question \in [name : Responses, error : 1..15]
       \/ bench = "segment" /\ question = Unanswered
       \/ bench = "exchange" /\ question \in [produced : Produced]
    /\ bench # "segment" => seg = CreateSegment(Base, Max(Capacities))

ComputeMessage ==
    LET v == SampleFields(Formats[question.name][1], question.seed, question.n)
    IN  Answers("message", [value |-> v, bytes |-> WriteFields(Formats[question.name][1], v)])

\* A body that ends too early, an API nobody registered, or any other error.
ErrorStream(name, error) ==
    LET served == [ProduceResponse |-> Api.Produce, FetchResponse |-> Api.Fetch,
                   ListOffsetsResponse |-> Api.ListOffsets]
    IN  IF \/ error = Error.UnsupportedVersion
           \/ error = Error.CorruptMessage /\ name \in DOMAIN served
        THEN Serve(Request(IF error = Error.UnsupportedVersion THEN 99 ELSE served[name],
                           1, ClientId, <<>>), MaxFrame, OldLogs, OldLogs).stream
        ELSE WriteResponse(ErrorAnswer(1, error))

ComputeError ==
    Answers("error", Then(Answer(ErrorStream(question.name, question.error), 1, MaxFrame),
                          LAMBDA b : ReadFields(Formats[question.name][2], b.value, 0)))

\* Everything that may happen to a segment.
StepOfSegment == bench = "segment" /\ SegmentNext /\ UNCHANGED <<bench, question, answer>>

\* A produce, then a fetch, then a ListOffsets.
ExchangeProduce ==
    Answers("exchange", Heard(<<>>, Serve(ProduceStream(question.produced), MaxFrame, OldLogs, OldLogs),
                              1, ProduceResponse_R))

Turned(n) == bench = "exchange" /\ answer # Unanswered /\ Len(Result.answers) = n

\* Retention may run before the fetch, and again when its handler has asked where
\* the log starts and has not read yet.
ExchangeFetch ==
    /\ Turned(1)
    /\ \E offset \in {4, 5, 6, 7, 12}, maxBytes \in {0, 200}, n, m \in {0, 2} :
         LET before == Raised(Result.logs, n)
         IN  /\ question' = [produced |-> question.produced, offset |-> offset,
                             was |-> before[<<Topic, 1>>].start]
             /\ answer' = <<Heard(Result.answers,
                                  Serve(FetchStream(offset, maxBytes), MaxFrame,
                                        before, Raised(before, m)),
                                  2, FetchResponse_R)>>
    /\ UNCHANGED bench

ExchangeList ==
    /\ Turned(2)
    /\ answer' = <<Heard(Result.answers, Serve(ListStream, MaxFrame, Result.logs, Result.logs),
                         3, ListOffsetsResponse_R)>>
    /\ UNCHANGED <<bench, question>>

Next == \/ /\ \/ ComputeAssignment \/ ComputeVarint \/ ComputeMessage \/ ComputeError
              \/ ExchangeProduce \/ ExchangeFetch \/ ExchangeList
           /\ UNCHANGED segvars
        \/ StepOfSegment

Spec == Init /\ [][Next]_mcvars

-----------------------------------------------------------------------------
(* Messages *)

\* What one side writes the other side reads: every message comes back as it was
\* meant, positions and sizes that may not be negative are refused, and nothing
\* is ever made of a message that was cut short, wherever it was cut.  What is
\* kept in a file is refused when it is too long as well.
MessagesSurvive ==
    Answered("message") =>
        LET name    == question.name
            bytes   == Result.bytes
            decoded == Decode(name, bytes)
        IN  /\ IF Legal(name, Result.value)
               THEN decoded.ok /\ decoded.value = Understood(name, Result.value)
               ELSE ~decoded.ok
            /\ \A k \in 0..(Len(bytes) - 1) :
                    Decode(name, SubSeq(bytes, 1, k)).ok => name = "Assignment" /\ k = 0
            /\ name \in Whole => ~Decode(name, Append(bytes, 0)).ok

\* An answer that is only an error - the broker does not serve the version, the
\* body did not decode, a handler failed - is never taken for a success, although
\* the client decodes it as the answer it waits for.
ErrorsStayErrors == Answered("error") /\ Result.ok => Result.value[1] = question.error

-----------------------------------------------------------------------------
(* Requests *)

Acks == Result.answers[1]
View == Result.answers[2]
Ends == Result.answers[3]

\* The batches a partition was sent, as <<base, records>>, and its next offset.
Accepted(p) ==
    FoldLeft(LAMBDA s, sent :
                IF sent[1] # p THEN s
                ELSE [next  |-> s.next + Last(sent[2]).delta + 1,
                      batches |-> Append(s.batches, <<s.next, sent[2]>>)],
             [next |-> Start(p), batches |-> <<>>], question.produced)

\* The records of those batches with their offsets.
Lines(batches) ==
    FlattenSeq([i \in DOMAIN batches |->
        [j \in DOMAIN batches[i][2] |->
            <<batches[i][1] + batches[i][2][j].delta, Printed(batches[i][2][j].value)>>]])

\* The bytes in the file are the batches sent with their offsets stamped in: each
\* still matches its checksum, which was computed before, and decodes to the
\* records sent, a null value told from an empty one.
StoredAsSent(p) ==
    LET log == Result.logs[<<Topic, p>>]
    IN  /\ LogEnd(log) = Accepted(p).next
        /\ PrintBatches(log.bytes, 0).printed = Lines(Accepted(p).batches)
        /\ \A n \in DOMAIN log.seg.batches :
                LET from == SubSeq(log.bytes, X!StartOf(log.seg.batches, n) + 1, Len(log.bytes))
                IN  VerifyCrc(from) /\ DecodeRecords(from).value = Accepted(p).batches[n][2]

\* A turn of the consumer prints whole batches, in order and without a gap, from
\* the one with its offset, and goes on after the last of them.
PrintsFrom(turn, offset, whole, logEnd) ==
    /\ turn.outcome = "printed" /\ turn.offset > offset
    /\ \E i \in DOMAIN whole : \E j \in i..Len(whole) :
            /\ turn.printed = Lines(SubSeq(whole, i, j))
            /\ whole[i][1] <= offset
            /\ i < Len(whole) => offset < whole[i + 1][1]
            /\ turn.offset = (IF j < Len(whole) THEN whole[j + 1][1] ELSE logEnd)

\* What a consumer at `offset` makes of the answer, when the log began at `was` as
\* the handler looked and at log.start as it read.  Too slow, it prints nothing and
\* resumes at a start the log had meanwhile; only when retention overtook it in
\* between may it be told that it is past the end, where it gives up.
TurnsAsSent(turn, log, was, offset, whole) ==
    CASE offset < log.start ->
            /\ turn.printed = <<>>
            /\ \/ turn.outcome = "resume" /\ turn.offset \in was..log.start /\ turn.offset > offset
               \/ turn.outcome = "past the end" /\ was <= offset
      [] offset > LogEnd(log)   -> turn.outcome = "past the end"
      [] offset = LogEnd(log)   -> turn.outcome = "caught up"
      [] OTHER                  -> PrintsFrom(turn, offset, whole, LogEnd(log))

ConsumedAsSent(p, was, offset) ==
    TurnsAsSent(ConsumeTurn(View.value[1][1][2][p + 1], offset),
                Result.logs[<<Topic, p>>], was, offset, Accepted(p).batches)

\* From the producer's bytes to the consumer's lines: what was acknowledged is
\* stored as it was sent and printed as it was stored, between the offsets that
\* ListOffsets names, in whichever partitions, frames and response segments it
\* travelled.  The two offsets of a fetch answer do not quite tell "too slow" from
\* "past the end": handleFetch() asks for them before it reads (TurnsAsSent).
ConsumedIsProduced ==
    /\ Turned(1) =>
        /\ Acks.ok
        /\ \A i \in DOMAIN question.produced :
                Acks.value[1][1][2][i][2] =
                    (IF question.produced[i][1] = 9 THEN Error.NotLeaderForPartition ELSE Error.None)
        /\ \A p \in {0, 1} : StoredAsSent(p)
    /\ Turned(2) =>
        /\ View.ok
        /\ ConsumedAsSent(0, Start(0), Start(0))
        /\ ConsumedAsSent(1, question.was, question.offset)
    /\ Turned(3) =>
        /\ Ends.ok
        /\ \A p \in {0, 1} : LET limit(i) == Ends.value[1][1][2][2 * p + i]
                           IN  /\ limit(1) = <<p, Error.None, Result.logs[<<Topic, p>>].start>>
                               /\ limit(2) = <<p, Error.None, Accepted(p).next>>
=============================================================================
