------------------------------ MODULE Messages ------------------------------
(***************************************************************************)
(* Every message of the protocol and every structure kept in a file:       *)
(* what its encodeX() writes and what its decodeX() reads, field by field. *)
(* X_W is the format written, X_R the format read.                         *)
(***************************************************************************)
EXTENDS WireFormat

\* Arrays of topics with a name and an array of partitions.
Topics(fields) == Arr(<<Str, Arr(fields)>>)

(* request_header.cpp *)
RequestHeader_W == <<I16, I16, I32, Str>>          \* apiKey, apiVersion, correlationId, clientId
RequestHeader_R == <<I16, I16, I32, Str>>
ResponseHeader_W == <<I32>>
ResponseHeader_R == <<I32>>

(* metadata.cpp, list_offsets.cpp, create_topic.cpp *)
MetadataRequest_W == <<Bool, Arr(<<Str>>)>>
MetadataRequest_R == <<Bool, Arr(<<Str>>)>>
MetadataResponse_W == <<Arr(<<I32, Str, I32>>), I32, Arr(<<I16, Str, Arr(<<I16, I32, I32>>)>>)>>
MetadataResponse_R == <<Arr(<<I32, Str, I32>>), I32, Arr(<<I16, Str, Arr(<<I16, I32, I32>>)>>)>>

ListOffsetsRequest_W == <<Topics(<<I32, I64>>)>>
ListOffsetsRequest_R == <<Topics(<<I32, I64>>)>>
ListOffsetsResponse_W == <<Topics(<<I32, I16, I64>>)>>
ListOffsetsResponse_R == <<Topics(<<I32, I16, I64>>)>>

CreateTopicRequest_W == <<Arr(<<Str, I32, Override, Override, Override, Flag>>), I32>>
CreateTopicRequest_R == <<Arr(<<Str, I32, Override, Override, Override, Flag>>), I32>>
CreateTopicResponse_W == <<Arr(<<Str, I16>>)>>
CreateTopicResponse_R == <<Arr(<<Str, I16>>)>>

(* produce.cpp, fetch.cpp *)
ProduceRequest_W == <<I16, I32, Topics(<<I32, Blob>>)>>
ProduceRequest_R == <<I16, I32, Topics(<<I32, Located>>)>>
ProduceResponse_W == <<Topics(<<I32, I16, I64>>)>>
ProduceResponse_R == <<Topics(<<I32, I16, I64>>)>>

FetchRequest_W == <<I32, I32, Topics(<<I32, I64, I32>>)>>
FetchRequest_R == <<I32, I32, Topics(<<I32, I64, NonNegative(I32)>>)>>
FetchResponse_W == <<Topics(<<I32, I16, I64, I64, Blob>>)>>     \* records by sendfile
FetchResponse_R == <<Topics(<<I32, I16, I64, I64, Blob>>)>>

(* group_apis.cpp *)
FindCoordinatorRequest_W == <<Str>>
FindCoordinatorRequest_R == <<Str>>
FindCoordinatorResponse_W == <<I16, I32, Str, I32>>
FindCoordinatorResponse_R == <<I16, I32, Str, I32>>

JoinGroupRequest_W == <<Str, I32, Str, Arr(<<Str>>), Arr(<<Str>>)>>
JoinGroupRequest_R == <<Str, I32, Str, Arr(<<Str>>), Arr(<<Str>>)>>
JoinGroupResponse_W == <<I16, I32, Str, Str, Str, Arr(<<Str, Arr(<<Str>>)>>)>>
JoinGroupResponse_R == <<I16, I32, Str, Str, Str, Arr(<<Str, Arr(<<Str>>)>>)>>

SyncGroupRequest_W == <<Str, I32, Str, Arr(<<Str, Blob>>)>>
SyncGroupRequest_R == <<Str, I32, Str, Arr(<<Str, Blob>>)>>
SyncGroupResponse_W == <<I16, Blob>>
SyncGroupResponse_R == <<I16, Blob>>

HeartbeatRequest_W == <<Str, I32, Str>>
HeartbeatRequest_R == <<Str, I32, Str>>
HeartbeatResponse_W == <<I16>>
HeartbeatResponse_R == <<I16>>
LeaveGroupRequest_W == <<Str, Str>>
LeaveGroupRequest_R == <<Str, Str>>
LeaveGroupResponse_W == <<I16>>
LeaveGroupResponse_R == <<I16>>

OffsetCommitRequest_W == <<Str, I32, Str, Topics(<<I32, I64, Str>>)>>
OffsetCommitRequest_R == <<Str, I32, Str, Topics(<<I32, NonNegative(I64), Str>>)>>
OffsetCommitResponse_W == <<Topics(<<I32, I16>>)>>
OffsetCommitResponse_R == <<Topics(<<I32, I16>>)>>

OffsetFetchRequest_W == <<Str, Topics(<<I32>>)>>
OffsetFetchRequest_R == <<Str, Topics(<<I32>>)>>
OffsetFetchResponse_W == <<Topics(<<I32, I64, Str, I16>>)>>
OffsetFetchResponse_R == <<Topics(<<I32, I64, Str, I16>>)>>

(* commit_record.cpp, cli/assignor.cpp, partition_meta.cpp: with versions *)
Magic == 1145786445            \* "DKPM"
CommitKey_W == <<Exactly(I16, 1), Str, Str, I32>>
CommitKey_R == <<Exactly(I16, 1), Str, Str, I32>>
CommitValue_W == <<Exactly(I16, 1), I64, Str, I64>>
CommitValue_R == <<Exactly(I16, 1), NonNegative(I64), Str, I64>>
Assignment_W == <<Exactly(I16, 1), Topics(<<I32>>)>>
Assignment_R == <<Exactly(I16, 1), Topics(<<I32>>)>>

PartitionMeta_W(version) ==
    <<Exactly(I32, Magic), Exactly(I16, version), Str, I32, I64, I64, I64, I64, I64, Limit, I64>>
    \o (IF version >= 2 THEN <<I8, I64>> ELSE <<>>)
PartitionMeta_R(version) ==
    <<Exactly(I32, Magic), Exactly(I16, version), Name, NonNegative(I32),
      I64, I64, I64, I64, I64, Limit, I64>>
    \o (IF version >= 2 THEN <<Binary, I64>> ELSE <<>>)

\* decodeAssignment(): no bytes at all mean that nothing is assigned.
DecodeAssignment(bytes) ==
    IF bytes = <<>> THEN Took(<<1, <<>>>>, 0) ELSE ReadWhole(Assignment_R, bytes)

\* decodePartitionMeta(): this build's version and the one before; a v1 file is
\* of a Delete topic and gets the default deleteRetentionMs.
DecodePartitionMeta(bytes) ==
    Then(ReadInt(2, bytes, 4), LAMBDA version :
        CASE version.value = 1 ->
                Then(ReadWhole(PartitionMeta_R(1), bytes), LAMBDA r :
                    Took(r.value \o <<0, 86400000>>, r.pos))
          [] version.value = 2 -> ReadWhole(PartitionMeta_R(2), bytes)
          [] OTHER -> Refused)
=============================================================================
