---------------------------- MODULE RecordBatch ----------------------------
(***************************************************************************)
(* Record batches (src/src/storage/record_batch): what a producer builds,  *)
(* the broker stamps and everybody else reads.                             *)
(*                                                                         *)
(* A record is [ts, delta, key, value, headers]; keys and values are byte  *)
(* sequences or None.                                                      *)
(***************************************************************************)
EXTENDS WireFormat

\* baseOffset, batchLength, partitionLeaderEpoch, magic, crc, attributes,
\* lastOffsetDelta, firstTimestamp, maxTimestamp, producerId, producerEpoch,
\* baseSequence, recordCount.
Header_W == <<I64, I32, I32, I8, I32, I16, I32, I64, I64, I64, I16, I32, I32>>
Header_R == <<I64, NonNegative(I32), I32, Exactly(I8, 2), I32, I16, I32, I64, I64, I64, I16,
              I32, NonNegative(I32)>>
HeaderSize == 61
BytesBeforeBatchLengthCounted == 12

\* attributes, timestampDelta, offsetDelta, key, value, headers.
Record_W == <<Sized(<<I8, Varint(64), Varint(32), Nullable, Nullable,
                      Many(<<HeaderKey, Nullable>>)>>)>>
Record_R == <<Sized(<<I8, Varint(64), Varint(32), Nullable, Nullable,
                      Many(<<HeaderKey, Nullable>>)>>)>>

\* crc32c of a byte sequence; any function of every byte and its place will do.
\* This one mixes the checksums of the two halves.
RECURSIVE Crc32c(_)
Crc32c(bytes) ==
    LET half == Len(bytes) \div 2
    IN  CASE bytes = <<>>    -> 7
          [] Len(bytes) = 1  -> bytes[1] + 1
          [] OTHER           -> (31 * Crc32c(SubSeq(bytes, 1, half))
                                 + 17 * Crc32c(SubSeq(bytes, half + 1, Len(bytes)))) % 65521

\* Mutant: the checksum begins at the front of the batch.
CoveredFromFront(bytes) == SubSeq(bytes, 1, 17) \o SubSeq(bytes, 22, Len(bytes))

\* kCrcCoverageStart: everything from attributes on, so that neither baseOffset
\* nor partitionLeaderEpoch is covered.
Covered(bytes) == SubSeq(bytes, 22, Len(bytes))

\* The builder after appendAt() of each record: append() counts the deltas up,
\* the cleaner keeps the old ones; either way they increase.
Build(records) ==
    LET n     == Len(records)
        first == records[1].ts
        maxTs == FoldLeft(LAMBDA m, r : IF r.ts > m THEN r.ts ELSE m, first, records)
        body  == FlattenSeq([i \in 1..n |->
                    WriteFields(Record_W, <<<<0, records[i].ts - first, records[i].delta,
                                             records[i].key, records[i].value,
                                             records[i].headers>>>>)])
        header(crc) ==
            WriteFields(Header_W, <<0, HeaderSize + Len(body) - BytesBeforeBatchLengthCounted,
                                    -1, 2, crc, 0, records[n].delta, first, maxTs,
                                    -1, -1, -1, n>>)
    IN  header(Crc32c(Covered(header(0) \o body))) \o body

\* parseHeader(), with names for the fields that are used.
ParseHeader(bytes) ==
    Then(ReadFields(Header_R, bytes, 0), LAMBDA r :
        Took([base |-> r.value[1], crc |-> r.value[5], lastDelta |-> r.value[7],
              firstTs |-> r.value[8], maxTs |-> r.value[9], count |-> r.value[13]], r.pos))

\* totalSizeOf(): from the first twelve bytes alone.
TotalSizeOf(bytes) ==
    Then(ReadInt(4, bytes, 8), LAMBDA n :
        IF n.value < HeaderSize - BytesBeforeBatchLengthCounted THEN Refused
        ELSE Took(n.value + BytesBeforeBatchLengthCounted, n.pos))

\* The bytes of the batch at the front, or Refused when it is not all there.
Body(bytes) ==
    Then(TotalSizeOf(bytes), LAMBDA n : ReadBytes(n.value, bytes, 0))

VerifyCrc(bytes) ==
    LET header == ParseHeader(bytes)
        body   == Body(bytes)
    IN  header.ok /\ body.ok /\ Crc32c(Covered(body.value)) = header.value.crc

\* decodeRecords(): exactly recordCount records, each as long as it says.
DecodeRecords(bytes) ==
    Then(ParseHeader(bytes), LAMBDA h :
        Then(Body(bytes), LAMBDA b :
            Then(ReadElements(Record_R, h.value.count,
                              SubSeq(b.value, HeaderSize + 1, Len(b.value)), 0), LAMBDA r :
                Took([i \in DOMAIN r.value |->
                        [ts      |-> h.value.firstTs + r.value[i][1][2],
                         delta   |-> r.value[i][1][3],
                         key     |-> r.value[i][1][4],
                         value   |-> r.value[i][1][5],
                         headers |-> r.value[i][1][6]]], r.pos))))

\* stampBaseOffset(), in the first eight of the bytes that begin after `at`.
StampBaseOffset(bytes, at, base) ==
    SubSeq(bytes, 1, at) \o WriteInt(base, 8) \o SubSeq(bytes, at + 9, Len(bytes))
=============================================================================
