----------------------------- MODULE WireFormat -----------------------------
(***************************************************************************)
(* How values become bytes and bytes become values again: BufferWriter and *)
(* BufferReader (src/src/common/buffer), and the strings, byte blocks and  *)
(* arrays of the wire protocol (src/src/protocol/wire, group_apis).        *)
(*                                                                         *)
(* A format is a sequence of field types and a value a sequence of the     *)
(* field values.  What an encodeX() writes and what the decodeX() of the   *)
(* other side reads are two formats (module Messages), so that an          *)
(* encoding is only understood when the two agree.                         *)
(***************************************************************************)
EXTENDS Varint, SequencesExt

CONSTANT None   \* nullopt

Then(r, More(_)) == IF r.ok THEN More(r) ELSE Refused

-----------------------------------------------------------------------------
(* Integers: big-endian two's complement *)

RECURSIVE ByteAt(_, _)
ByteAt(v, k) == IF k = 0 THEN v % 256 ELSE ByteAt(v \div 256, k - 1)

\* writeInt8/16/32/64.
WriteInt(v, width) == [i \in 1..width |-> ByteAt(v, width - i)]

\* require() and readInt8/16/32/64.
ReadInt(width, bytes, pos) ==
    IF pos + width > Len(bytes) THEN Refused
    ELSE LET raw == SubSeq(bytes, pos + 1, pos + width)
             sign == IF raw[1] >= 128 THEN -1 ELSE 0
         IN  Took(FoldLeft(LAMBDA n, b : 256 * n + b, sign, raw), pos + width)

\* readBytes(count).
ReadBytes(count, bytes, pos) ==
    IF pos + count > Len(bytes) THEN Refused
    ELSE Took(SubSeq(bytes, pos + 1, pos + count), pos + count)

-----------------------------------------------------------------------------
(* Field types *)

I8  == [kind |-> "int", width |-> 1]
I16 == [kind |-> "int", width |-> 2]
I32 == [kind |-> "int", width |-> 4]
I64 == [kind |-> "int", width |-> 8]
NonNegative(type)  == [kind |-> "nonnegative", of |-> type]   \* readers that refuse less
Exactly(type, v)   == [kind |-> "exactly", of |-> type, v |-> v]  \* a version or a magic
Bool               == [kind |-> "bool"]
Str                == [kind |-> "string"]
Name               == [kind |-> "name"]         \* a string that may not be empty
Blob               == [kind |-> "bytes"]
Arr(fields)        == [kind |-> "array", of |-> fields]
Override           == [kind |-> "override"]     \* an optional int64
Limit              == [kind |-> "limit"]        \* an optional uint64
Flag               == [kind |-> "flag"]         \* an optional bool

Binary             == [kind |-> "binary"]       \* 0 or 1 in a byte
Located            == [kind |-> "located"]      \* bytes, and where in the buffer they are
Varint(width)      == [kind |-> "varint", width |-> width]
Nullable           == [kind |-> "nullable"]     \* varint length, -1 for null
HeaderKey          == [kind |-> "header key"]   \* varint length, never null
Sized(fields)      == [kind |-> "sized", of |-> fields]       \* after their length in bytes
Many(fields)       == [kind |-> "many", of |-> fields]        \* after their number, a varint

-----------------------------------------------------------------------------
(* writeString, writeBytes, writeStrings, writeOverride, writeFlag *)

WriteOverride(v) == IF v = None THEN -1 ELSE v
WriteFlag(v) == CASE v = None -> -1 [] v = TRUE -> 1 [] v = FALSE -> 0

RECURSIVE Write(_, _)
WriteFields(types, v) == FlattenSeq([i \in DOMAIN types |-> Write(types[i], v[i])])

Write(type, v) ==
    CASE type.kind = "int"       -> WriteInt(v, type.width)
      [] type.kind = "exactly"   -> Write(type.of, type.v)
      [] type.kind = "bool"      -> WriteInt(IF v THEN 1 ELSE 0, 1)
      [] type.kind = "string"    -> WriteInt(Len(v), 2) \o v
      [] type.kind = "bytes"     -> WriteInt(Len(v), 4) \o v
      [] type.kind = "array"     -> WriteInt(Len(v), 4)
                                    \o FlattenSeq([i \in DOMAIN v |-> WriteFields(type.of, v[i])])
      [] type.kind \in {"override", "limit"} -> WriteInt(WriteOverride(v), 8)
      [] type.kind = "flag"      -> WriteInt(WriteFlag(v), 1)
      [] type.kind = "varint"    -> EncodeVarint(v, type.width, 7)
      [] type.kind = "nullable"  -> IF v = None THEN EncodeVarint(-1, 32, 7)
                                    ELSE EncodeVarint(Len(v), 32, 7) \o v
      [] type.kind = "header key" -> EncodeVarint(Len(v), 32, 7) \o v
      [] type.kind = "sized"     -> LET encoded == WriteFields(type.of, v)
                                    IN  EncodeVarint(Len(encoded), 32, 7) \o encoded
      [] type.kind = "many"      -> EncodeVarint(Len(v), 32, 7)
                                    \o FlattenSeq([i \in DOMAIN v |-> WriteFields(type.of, v[i])])

-----------------------------------------------------------------------------
(* readString, readElementCount, readBytes, readStrings, readOverride, readFlag *)

\* The null marker reads as the empty string, any other negative length throws.
ReadString(bytes, pos) ==
    Then(ReadInt(2, bytes, pos), LAMBDA n :
        CASE n.value = -1 -> Took(<<>>, n.pos)
          [] n.value < -1 -> Refused
          [] OTHER        -> ReadBytes(n.value, bytes, n.pos))

ReadBlob(bytes, pos) ==
    Then(ReadInt(4, bytes, pos), LAMBDA n :
        IF n.value < 0 THEN Refused ELSE ReadBytes(n.value, bytes, n.pos))

\* The null array is an empty one; a count beyond the bytes that remain throws
\* before anything is reserved for it.
ReadElementCount(bytes, pos) ==
    Then(ReadInt(4, bytes, pos), LAMBDA n :
        CASE n.value < -1                  -> Refused
          [] n.value = -1                  -> Took(0, n.pos)
          [] n.value > Len(bytes) - n.pos  -> Refused
          [] OTHER                         -> n)

\* readNullableBytes.  Null and empty are different facts: a null value is a
\* tombstone.
ReadNullable(bytes, pos) ==
    Then(DecodeVarint(bytes, pos, 32, 7), LAMBDA n :
        CASE n.value = -1 -> Took(None, n.pos)
          [] n.value < -1 -> Refused
          [] OTHER        -> ReadBytes(n.value, bytes, n.pos))

\* Mutant: the sentinel itself comes back as a value.
ReadOverrideRaw(v) == IF v < -1 THEN None ELSE v
ReadOverride(v) == IF v <= 0 THEN None ELSE v

\* The optional of RetentionPolicy: only the sentinel is "unlimited".
ReadLimit(v) == IF v = -1 THEN None ELSE v

RECURSIVE Read(_, _, _)
ReadFields(types, bytes, pos) ==
    FoldLeft(LAMBDA r, type :
                Then(r, LAMBDA q : Then(Read(type, bytes, q.pos),
                                        LAMBDA f : Took(Append(q.value, f.value), f.pos))),
             Took(<<>>, pos), types)

ReadElements(types, count, bytes, pos) ==
    FoldLeft(LAMBDA r, i :
                Then(r, LAMBDA q : Then(ReadFields(types, bytes, q.pos),
                                        LAMBDA f : Took(Append(q.value, f.value), f.pos))),
             Took(<<>>, pos), [i \in 1..count |-> i])

Read(type, bytes, pos) ==
    LET checked(r, Legal(_)) == Then(r, LAMBDA q : IF Legal(q.value) THEN q ELSE Refused)
        as(r, F(_))          == Then(r, LAMBDA q : Took(F(q.value), q.pos))
    IN  CASE type.kind = "int"    -> ReadInt(type.width, bytes, pos)
          [] type.kind = "nonnegative" -> checked(Read(type.of, bytes, pos), LAMBDA v : v >= 0)
          [] type.kind = "exactly" -> checked(Read(type.of, bytes, pos), LAMBDA v : v = type.v)
          [] type.kind = "bool"   -> as(ReadInt(1, bytes, pos), LAMBDA v : v # 0)
          [] type.kind = "string" -> ReadString(bytes, pos)
          [] type.kind = "name"   -> checked(ReadString(bytes, pos), LAMBDA v : v # <<>>)
          [] type.kind = "bytes"  -> ReadBlob(bytes, pos)
          [] type.kind = "array"  -> Then(ReadElementCount(bytes, pos), LAMBDA n :
                                            ReadElements(type.of, n.value, bytes, n.pos))
          [] type.kind = "override" -> as(ReadInt(8, bytes, pos), ReadOverride)
          [] type.kind = "limit"  -> as(ReadInt(8, bytes, pos), ReadLimit)
          [] type.kind = "flag"   -> as(checked(ReadInt(1, bytes, pos), LAMBDA v : v <= 1),
                                        LAMBDA v : IF v < 0 THEN None ELSE v = 1)
          [] type.kind = "binary" -> checked(ReadInt(1, bytes, pos), LAMBDA v : v \in {0, 1})
          [] type.kind = "located" -> Then(ReadBlob(bytes, pos), LAMBDA r :
                Took([at |-> r.pos - Len(r.value), bytes |-> r.value], r.pos))
          [] type.kind = "varint" -> DecodeVarint(bytes, pos, type.width, 7)
          [] type.kind = "nullable" -> ReadNullable(bytes, pos)
          [] type.kind = "header key" -> checked(ReadNullable(bytes, pos), LAMBDA v : v # None)
          [] type.kind = "sized"  -> Then(DecodeVarint(bytes, pos, 32, 7), LAMBDA n :
                Then(ReadFields(type.of, bytes, n.pos), LAMBDA r :
                    IF n.value >= 0 /\ r.pos = n.pos + n.value THEN r ELSE Refused))
          [] type.kind = "many"   -> Then(DecodeVarint(bytes, pos, 32, 7), LAMBDA n :
                IF n.value < 0 THEN Refused
                ELSE ReadElements(type.of, n.value, bytes, n.pos))

\* A decoder that refuses trailing bytes.
ReadWhole(types, bytes) ==
    Then(ReadFields(types, bytes, 0), LAMBDA r : IF r.pos = Len(bytes) THEN r ELSE Refused)
=============================================================================
