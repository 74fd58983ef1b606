------------------------------ MODULE Exchange ------------------------------
(***************************************************************************)
(* A request and its answer, from the bytes the client writes to what it   *)
(* makes of the bytes it gets back: Client::call (src/src/cli/client), the *)
(* frames (protocol/frame), Connection::serve and ApiRegistry::dispatch,   *)
(* the Produce, Fetch and ListOffsets handlers (server/handlers), the      *)
(* response made of buffers and file ranges (protocol/response) and the    *)
(* batches the command line prints (apps/dariyakyu_cli).                   *)
(*                                                                         *)
(* logs maps <<topic, partition>> to a log: [start, seg, bytes], its first *)
(* offset, its only segment (module OffsetIndex) and the bytes of the      *)
(* segment's file.                                                         *)
(***************************************************************************)
EXTENDS Messages, RecordBatch

X == INSTANCE OffsetIndex WITH MaxUint32 <- 2147483647

Api == [Produce |-> 0, Fetch |-> 1, ListOffsets |-> 2]
Error == [None |-> 0, Unknown |-> 1, OffsetOutOfRange |-> 2, CorruptMessage |-> 3,
          NotLeaderForPartition |-> 4, UnsupportedVersion |-> 9]

-----------------------------------------------------------------------------
(* Frames *)

WriteFrame(payload) == WriteInt(Len(payload), 4) \o payload

\* readFrame(): one frame from the front of what arrived before the peer went.
ReadFrame(stream, maxFrameBytes) ==
    Then(ReadInt(4, stream, 0), LAMBDA n :
        IF n.value < 0 \/ n.value > maxFrameBytes THEN Refused
        ELSE ReadBytes(n.value, stream, n.pos))

\* Client::call(), the sending half.
Request(key, correlationId, clientId, body) ==
    WriteFrame(WriteFields(RequestHeader_W, <<key, 0, correlationId, clientId>>) \o body)

\* Client::call(), the receiving half: the body of the answer to correlationId.
Answer(stream, correlationId, maxFrameBytes) ==
    Then(ReadFrame(stream, maxFrameBytes), LAMBDA f :
        Then(ReadFields(ResponseHeader_R, f.value, 0), LAMBDA h :
            IF h.value # <<correlationId>> THEN Refused
            ELSE Took(SubSeq(f.value, h.pos + 1, Len(f.value)), f.pos)))

-----------------------------------------------------------------------------
(* Response: segments that are buffers or file ranges *)

\* append(vector): adjacent buffers are one.
AppendBuffer(segments, buffer) ==
    IF buffer = <<>> THEN segments
    ELSE IF segments # <<>> /\ ~Last(segments).file
    THEN [segments EXCEPT ![Len(segments)].bytes = @ \o buffer]
    ELSE Append(segments, [file |-> FALSE, bytes |-> buffer])

\* append(FileRange): an empty range is dropped.
AppendRange(segments, range) ==
    IF range = <<>> THEN segments ELSE Append(segments, [file |-> TRUE, bytes |-> range])

TotalBytes(segments) == FoldLeft(LAMBDA n, s : n + Len(s.bytes), 0, segments)

\* writeResponse(): the length is arithmetic over the segments, the bytes follow.
WriteResponse(segments) ==
    WriteInt(TotalBytes(segments), 4) \o FlattenSeq([i \in DOMAIN segments |-> segments[i].bytes])

\* encodeFetchResponse(), one partition <<partition, error, highWatermark,
\* logStartOffset, records>>: the buffer is handed over when records follow.
EncodePartition(w, p) ==
    LET buffer == w.buffer \o WriteFields(<<I32, I16, I64, I64, I32>>,
                                          <<p[1], p[2], p[3], p[4], Len(p[5])>>)
    IN  IF p[5] = <<>> THEN [w EXCEPT !.buffer = buffer]
        ELSE [segments |-> AppendRange(AppendBuffer(w.segments, buffer), p[5]), buffer |-> <<>>]

EncodeFetchResponse(segments, topics) ==
    LET topic(w, t) ==
            FoldLeft(EncodePartition,
                     [w EXCEPT !.buffer = @ \o Write(Str, t[1]) \o WriteInt(Len(t[2]), 4)], t[2])
        end == FoldLeft(topic, [segments |-> segments, buffer |-> WriteInt(Len(topics), 4)], topics)
    IN  AppendBuffer(end.segments, end.buffer)

-----------------------------------------------------------------------------
(* The log behind the handlers *)

Interval == 80        \* indexIntervalBytes, about one batch

EmptyLog(start) == [start |-> start, seg |-> X!CreateSegment(start, 4), bytes |-> <<>>]
LogEnd(log) == log.seg.next

\* Log::append() of stamped bytes.
BatchOf(header, size) ==
    [first |-> header.base, last |-> header.base + header.lastDelta, size |-> size]

AppendToLog(log, stamped) ==
    [log EXCEPT !.seg   = X!Appended(@, Interval,
                                     BatchOf(ParseHeader(stamped).value, Len(stamped))),
                !.bytes = @ \o stamped]

\* The bytes of a file that a range [position, length] stands for.
BytesOf(range, bytes) == SubSeq(bytes, range.position + 1, range.position + range.length)

\* Log::read() in a log of one segment: an error code and the bytes of the range.
ReadLog(log, offset, maxBytes) ==
    CASE offset < log.start \/ offset > LogEnd(log) ->
            [error |-> Error.OffsetOutOfRange, records |-> <<>>]
      [] offset = LogEnd(log) -> [error |-> Error.None, records |-> <<>>]
      [] OTHER ->
            [error   |-> Error.None,
             records |-> BytesOf(X!ReadSegment(log.seg.base, log.seg.batches, log.seg.size,
                                               log.seg.index, offset, maxBytes), log.bytes)]

-----------------------------------------------------------------------------
(* Handlers *)

Answering(s, partition, error, offset) ==
    [s EXCEPT !.answers = Append(@, <<partition, error, offset>>)]

\* mutableBatch(): the batch where it lies in the frame.
MutableBatch(records, frame) == SubSeq(frame, records.at + 1, records.at + Len(records.bytes))

\* The batch is stamped in place, appended and acknowledged.
Stored(s, tp, records, base) ==
    LET frame == StampBaseOffset(s.frame, records.at, base)
    IN  Answering([s EXCEPT !.frame    = frame,
                            !.logs[tp] = AppendToLog(@, MutableBatch(records, frame))],
                  tp[2], Error.None, base)

\* handleProduce(), one partition.
ProduceOne(s, name, asked) ==
    CASE <<name, asked[1]>> \notin DOMAIN s.logs ->
            Answering(s, asked[1], Error.NotLeaderForPartition, -1)
      [] <<name, asked[1]>> \in DOMAIN s.logs /\ ~VerifyCrc(MutableBatch(asked[2], s.frame)) ->
            Answering(s, asked[1], Error.CorruptMessage, -1)
      [] OTHER ->
            Stored(s, <<name, asked[1]>>, asked[2], LogEnd(s.logs[<<name, asked[1]>>]))

\* The answers of one topic after those of the topics before it.
TopicAnswered(s, name) == [s EXCEPT !.topics = Append(@, <<name, s.answers>>), !.answers = <<>>]

ProduceTopic(s, t) ==
    TopicAnswered(FoldLeft(LAMBDA q, asked : ProduceOne(q, t[1], asked), s, t[2]), t[1])

ProduceAnswer(s, response) ==
    [logs     |-> s.logs,
     segments |-> AppendBuffer(response, WriteFields(ProduceResponse_W, <<s.topics>>))]

HandleProduce(frame, request, logs, response) ==
    ProduceAnswer(FoldLeft(ProduceTopic,
                           [frame |-> frame, logs |-> logs, answers |-> <<>>, topics |-> <<>>],
                           request[3]),
                  response)

\* handleFetch(): highWatermark() and logStartOffset() are asked for before the
\* read, of the log as it was then (`before`); retention may run in between.
FetchAnswer(partition, before, read) ==
    <<partition, read.error, LogEnd(before), before.start, read.records>>

FetchOne(before, logs, name, asked) ==
    IF <<name, asked[1]>> \notin DOMAIN logs
    THEN <<asked[1], Error.NotLeaderForPartition, 0, 0, <<>>>>
    ELSE FetchAnswer(asked[1], before[<<name, asked[1]>>],
                     ReadLog(logs[<<name, asked[1]>>], asked[2], asked[3]))

HandleFetch(request, before, logs, response) ==
    [logs     |-> logs,
     segments |-> EncodeFetchResponse(response,
        [i \in DOMAIN request[3] |->
            <<request[3][i][1],
              [j \in DOMAIN request[3][i][2] |->
                    FetchOne(before, logs, request[3][i][1], request[3][i][2][j])]>>])]

\* handleListOffsets(): -2 asks for the first offset, -1 for the next one.
ListOne(logs, name, asked) ==
    LET tp == <<name, asked[1]>>
    IN  CASE tp \notin DOMAIN logs -> <<asked[1], Error.NotLeaderForPartition, 0>>
          [] asked[2] = -2         -> <<asked[1], Error.None, logs[tp].start>>
          [] asked[2] = -1         -> <<asked[1], Error.None, LogEnd(logs[tp])>>
          [] OTHER                 -> <<asked[1], Error.Unknown, 0>>

HandleListOffsets(request, logs, response) ==
    LET topics == [i \in DOMAIN request[1] |->
                    <<request[1][i][1],
                      [j \in DOMAIN request[1][i][2] |->
                            ListOne(logs, request[1][i][1], request[1][i][2][j])]>>]
    IN  [logs     |-> logs,
         segments |-> AppendBuffer(response, WriteFields(ListOffsetsResponse_W, <<topics>>))]

\* Mutant: the error in 32 bits.
ErrorAnswerWide(correlationId, error) ==
    AppendBuffer(<<>>, WriteFields(ResponseHeader_W, <<correlationId>>) \o WriteInt(error, 4))

\* errorResponse(), and the answer of dispatch() to a version it does not serve.
ErrorAnswer(correlationId, error) ==
    AppendBuffer(<<>>, WriteFields(ResponseHeader_W, <<correlationId>>) \o WriteInt(error, 2))

\* A body that does not decode.
Corrupt(header, logs) ==
    [logs |-> logs, segments |-> ErrorAnswer(header[3], Error.CorruptMessage)]

\* dispatch(): the response header, then what the handler appends; `before` is the
\* broker's logs when a handler begins.
Dispatch(header, frame, pos, before, logs) ==
    LET response == AppendBuffer(<<>>, WriteFields(ResponseHeader_W, <<header[3]>>))
        produce(request) == IF request.ok THEN HandleProduce(frame, request.value, logs, response)
                            ELSE Corrupt(header, logs)
        fetch(request)   == IF request.ok THEN HandleFetch(request.value, before, logs, response)
                            ELSE Corrupt(header, logs)
        list(request)    == IF request.ok THEN HandleListOffsets(request.value, logs, response)
                            ELSE Corrupt(header, logs)
    IN  CASE header[2] # 0 \/ header[1] \notin {0, 1, 2} ->
                [logs |-> logs, segments |-> ErrorAnswer(header[3], Error.UnsupportedVersion)]
          [] header[2] = 0 /\ header[1] = Api.Produce -> produce(ReadFields(ProduceRequest_R, frame, pos))
          [] header[2] = 0 /\ header[1] = Api.Fetch -> fetch(ReadFields(FetchRequest_R, frame, pos))
          [] header[2] = 0 /\ header[1] = Api.ListOffsets ->
                list(ReadFields(ListOffsetsRequest_R, frame, pos))

\* writeResponse() of what dispatch() made.
Replied(done) == [logs |-> done.logs, stream |-> WriteResponse(done.segments)]

\* Connection::serve() once a frame has arrived.
ServeFrame(frame, header, before, logs) ==
    IF header.ok THEN Replied(Dispatch(header.value, frame, header.pos, before, logs))
    ELSE [logs |-> logs, stream |-> <<>>]

ServeNext(frame, before, logs) ==
    IF frame.ok THEN ServeFrame(frame.value, ReadFields(RequestHeader_R, frame.value, 0), before, logs)
    ELSE [logs |-> logs, stream |-> <<>>]

\* Connection::serve(), one frame: what is written back, nothing when it hangs
\* up, and the logs afterwards.
Serve(stream, maxFrameBytes, before, logs) ==
    ServeNext(ReadFrame(stream, maxFrameBytes), before, logs)

-----------------------------------------------------------------------------
(* The consumer at the command line *)

\* What is printed of a value: of a null one nothing, as of an empty one.
Printed(value) == IF value = None THEN <<>> ELSE value

RECURSIVE PrintBatches(_, _)

\* The lines of one batch, and then those of the others.
PrintBatch(batch, header, rest) ==
    LET lines(records) == [i \in DOMAIN records |->
                             <<header.base + records[i].delta, Printed(records[i].value)>>]
        both(first, more) == [printed |-> first \o more.printed, offset |-> more.offset]
    IN  both(lines(DecodeRecords(batch).value),
             PrintBatches(rest, header.base + header.lastDelta + 1))

\* printBatches(): every complete batch, and the offset after the last of them.
PrintBatches(records, offset) ==
    LET batch == Body(records)
    IN  IF ~batch.ok THEN [printed |-> <<>>, offset |-> offset]
        ELSE PrintBatch(batch.value, ParseHeader(batch.value).value,
                        SubSeq(records, batch.pos + 1, Len(records)))

\* One turn of doConsume(), on the answer to a fetch of `offset`.
ConsumeTurn(answer, offset) ==
    LET turn(outcome, lines) ==
            [outcome |-> outcome, printed |-> lines.printed, offset |-> lines.offset]
        nothing(at) == [printed |-> <<>>, offset |-> at]
    IN  CASE answer[2] = Error.OffsetOutOfRange /\ offset < answer[4] ->
                turn("resume", nothing(answer[4]))
          [] answer[2] = Error.OffsetOutOfRange /\ offset >= answer[4] ->
                turn("past the end", nothing(offset))
          [] answer[2] \notin {Error.OffsetOutOfRange, Error.None} -> turn("error", nothing(offset))
          [] answer[2] = Error.None /\ answer[5] = <<>> -> turn("caught up", nothing(offset))
          [] OTHER -> turn("printed", PrintBatches(answer[5], offset))
=============================================================================
