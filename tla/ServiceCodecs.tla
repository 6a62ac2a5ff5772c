--------------------------- MODULE ServiceCodecs ----------------------------
(***************************************************************************)
(* The messages of the client itself, of the CP subsystem, of SQL, of PN   *)
(* counters and of flake ID generators: one definition per file of         *)
(* internal/proto/codec.                                                   *)
(***************************************************************************)
EXTENDS BuiltinCodecs

AtomicLongAddAndGetCodec == Codec(
    Request(590592, FALSE, 24, <<LongAt("delta", 16)>>, <<RaftGroupId, String>>),
    Response(<<LongAt("response", 13)>>, <<>>), <<>>)

AtomicLongAlterCodec == Codec(
    Request(590336, FALSE, 20, <<IntAt("returnValueType", 16)>>, <<RaftGroupId, String, Data>>),
    Response(<<LongAt("response", 13)>>, <<>>), <<>>)

AtomicLongApplyCodec == Codec(
    Request(590080, FALSE, 16, <<>>, <<RaftGroupId, String, Data>>),
    Response(<<>>, <<NullableData>>), <<>>)

AtomicLongCompareAndSetCodec == Codec(
    Request(590848, FALSE, 32, <<LongAt("expected", 16), LongAt("updated", 24)>>,
            <<RaftGroupId, String>>),
    Response(<<BooleanAt("response", 13)>>, <<>>), <<>>)

AtomicLongGetAndAddCodec == Codec(
    Request(591360, FALSE, 24, <<LongAt("delta", 16)>>, <<RaftGroupId, String>>),
    Response(<<LongAt("response", 13)>>, <<>>), <<>>)

AtomicLongGetAndSetCodec == Codec(
    Request(591616, FALSE, 24, <<LongAt("newValue", 16)>>, <<RaftGroupId, String>>),
    Response(<<LongAt("response", 13)>>, <<>>), <<>>)

AtomicLongGetCodec == Codec(
    Request(591104, TRUE, 16, <<>>, <<RaftGroupId, String>>),
    Response(<<LongAt("response", 13)>>, <<>>), <<>>)

AtomicRefCompareAndSetCodec == Codec(
    Request(655872, FALSE, 16, <<>>, <<RaftGroupId, String, NullableData, NullableData>>),
    Response(<<BooleanAt("response", 13)>>, <<>>), <<>>)

AtomicRefContainsCodec == Codec(
    Request(656128, TRUE, 16, <<>>, <<RaftGroupId, String, NullableData>>),
    Response(<<BooleanAt("response", 13)>>, <<>>), <<>>)

AtomicRefGetCodec == Codec(
    Request(656384, TRUE, 16, <<>>, <<RaftGroupId, String>>),
    Response(<<>>, <<NullableData>>), <<>>)

AtomicRefSetCodec == Codec(
    Request(656640, FALSE, 17, <<BooleanAt("returnOldValue", 16)>>,
            <<RaftGroupId, String, NullableData>>),
    Response(<<>>, <<NullableData>>), <<>>)

ClientAddClusterViewListenerCodec == Codec(
    Request(768, FALSE, 16, <<>>, <<>>),
    NoResponse,
    <<Event(770, <<IntAt("version", 16)>>, <<DecodeListMultiFrameForMemberInfo>>),
      Event(771, <<IntAt("version", 16)>>, <<DecodeEntryListUUIDListInteger>>)>>)

ClientAddDistributedObjectListenerCodec == Codec(
    Request(2304, FALSE, 17, <<BooleanAt("localOnly", 16)>>, <<>>),
    Response(<<UUIDAt("response", 13)>>, <<>>),
    <<Event(2306, <<UUIDAt("source", 16)>>, <<String, String, String>>)>>)

ClientAuthenticationCodec == Codec(
    Request(256, TRUE, 34, <<UUIDAt("uuid", 16), ByteAt("serializationVersion", 33)>>,
            <<String, NullableString, NullableString, String, String, String,
              EncodeListMultiFrameForString>>),
    Response(<<ByteAt("status", 13), UUIDAt("memberUuid", 14), ByteAt("serializationVersion", 31),
               IntAt("partitionCount", 32), UUIDAt("clusterId", 36),
               BooleanAt("failoverSupported", 53)>>, <<DecodeNullableForAddress, String>>), <<>>)

ClientCreateProxyCodec == Codec(
    Request(1024, FALSE, 16, <<>>, <<String, String>>),
    NoResponse, <<>>)

ClientDestroyProxyCodec == Codec(
    Request(1280, FALSE, 16, <<>>, <<String, String>>),
    NoResponse, <<>>)

ClientFetchSchemaCodec == Codec(
    Request(5120, TRUE, 24, <<LongAt("schemaId", 16)>>, <<>>),
    Response(<<>>, <<DecodeNullableForSchema>>), <<>>)

ClientGetDistributedObjectsCodec == Codec(
    Request(2048, FALSE, 16, <<>>, <<>>),
    Response(<<>>, <<DecodeListMultiFrameForDistributedObjectInfo>>), <<>>)

ClientPingCodec == Codec(
    Request(2816, TRUE, 16, <<>>, <<>>),
    NoResponse, <<>>)

ClientRemoveDistributedObjectListenerCodec == Codec(
    Request(2560, TRUE, 33, <<UUIDAt("registrationId", 16)>>, <<>>),
    Response(<<BooleanAt("response", 13)>>, <<>>), <<>>)

ClientSendAllSchemasCodec == Codec(
    Request(5376, TRUE, 16, <<>>, <<EncodeListMultiFrameForSchema>>),
    NoResponse, <<>>)

ClientStatisticsCodec == Codec(
    Request(3072, FALSE, 24, <<LongAt("timestamp", 16)>>, <<String, ByteArray>>),
    NoResponse, <<>>)

CpGroupCreateCpGroupCodec == Codec(
    Request(1966336, TRUE, 16, <<>>, <<String>>),
    Response(<<>>, <<RaftGroupId>>), <<>>)

CpGroupDestroyCpObjectCodec == Codec(
    Request(1966592, TRUE, 16, <<>>, <<RaftGroupId, String, String>>),
    NoResponse, <<>>)

CpMapCompareAndSetCodec == Codec(
    Request(2295296, FALSE, 16, <<>>, <<RaftGroupId, String, Data, Data, Data>>),
    Response(<<BooleanAt("response", 13)>>, <<>>), <<>>)

CpMapDeleteCodec == Codec(
    Request(2295040, FALSE, 16, <<>>, <<RaftGroupId, String, Data>>),
    Response(<<>>, <<NullableData>>), <<>>)

CpMapGetCodec == Codec(
    Request(2294016, FALSE, 16, <<>>, <<RaftGroupId, String, Data>>),
    Response(<<>>, <<NullableData>>), <<>>)

CpMapPutCodec == Codec(
    Request(2294272, FALSE, 16, <<>>, <<RaftGroupId, String, Data, Data>>),
    Response(<<>>, <<NullableData>>), <<>>)

CpMapRemoveCodec == Codec(
    Request(2294784, FALSE, 16, <<>>, <<RaftGroupId, String, Data>>),
    Response(<<>>, <<NullableData>>), <<>>)

CpMapSetCodec == Codec(
    Request(2294528, FALSE, 16, <<>>, <<RaftGroupId, String, Data, Data>>),
    Response(<<>>, <<NullableData>>), <<>>)

FlakeIdGeneratorNewIdBatchCodec == Codec(
    Request(1835264, TRUE, 20, <<IntAt("batchSize", 16)>>, <<String>>),
    Response(<<LongAt("base", 13), LongAt("increment", 21), IntAt("batchSize", 29)>>, <<>>), <<>>)

PnCounterAddCodec == Codec(
    Request(1901056, FALSE, 42,
            <<LongAt("delta", 16), BooleanAt("getBeforeUpdate", 24),
              UUIDAt("targetReplicaUUID", 25)>>, <<String, EncodeEntryListUUIDLong>>),
    Response(<<LongAt("value", 13), IntAt("replicaCount", 21)>>, <<DecodeEntryListUUIDLong>>), <<>>)

PnCounterGetCodec == Codec(
    Request(1900800, TRUE, 33, <<UUIDAt("targetReplicaUUID", 16)>>,
            <<String, EncodeEntryListUUIDLong>>),
    Response(<<LongAt("value", 13), IntAt("replicaCount", 21)>>, <<DecodeEntryListUUIDLong>>), <<>>)

PnCounterGetConfiguredReplicaCountCodec == Codec(
    Request(1901312, TRUE, 16, <<>>, <<String>>),
    Response(<<IntAt("response", 13)>>, <<>>), <<>>)

SqlCloseCodec == Codec(
    Request(2163456, FALSE, 16, <<>>, <<SqlQueryId>>),
    NoResponse, <<>>)

SqlExecuteCodec == Codec(
    Request(2163712, FALSE, 30,
            <<LongAt("timeoutMillis", 16), IntAt("cursorBufferSize", 24),
              ByteAt("expectedResultType", 28), BooleanAt("skipUpdateStatistics", 29)>>,
            <<String, EncodeListMultiFrameNullableForData, NullableString, SqlQueryId>>),
    Response(<<LongAt("updateCount", 13), FieldIf("isInfiniteRows", "Boolean", 21, ">")>>,
             <<DecodeNullableListMultiFrameForSqlColumnMetadata, DecodeNullableForSQLPage,
               DecodeNullableForSQLError>>), <<>>)

SqlFetchCodec == Codec(
    Request(2163968, FALSE, 20, <<IntAt("cursorBufferSize", 16)>>, <<SqlQueryId>>),
    Response(<<>>, <<DecodeNullableForSQLPage, DecodeNullableForSQLError>>), <<>>)

ServiceMessages == <<
    AtomicLongAddAndGetCodec, AtomicLongAlterCodec, AtomicLongApplyCodec,
    AtomicLongCompareAndSetCodec, AtomicLongGetAndAddCodec, AtomicLongGetAndSetCodec,
    AtomicLongGetCodec, AtomicRefCompareAndSetCodec, AtomicRefContainsCodec, AtomicRefGetCodec,
    AtomicRefSetCodec, ClientAddClusterViewListenerCodec, ClientAddDistributedObjectListenerCodec,
    ClientAuthenticationCodec, ClientCreateProxyCodec, ClientDestroyProxyCodec,
    ClientFetchSchemaCodec, ClientGetDistributedObjectsCodec, ClientPingCodec,
    ClientRemoveDistributedObjectListenerCodec, ClientSendAllSchemasCodec, ClientStatisticsCodec,
    CpGroupCreateCpGroupCodec, CpGroupDestroyCpObjectCodec, CpMapCompareAndSetCodec,
    CpMapDeleteCodec, CpMapGetCodec, CpMapPutCodec, CpMapRemoveCodec, CpMapSetCodec,
    FlakeIdGeneratorNewIdBatchCodec, PnCounterAddCodec, PnCounterGetCodec,
    PnCounterGetConfiguredReplicaCountCodec, SqlCloseCodec, SqlExecuteCodec, SqlFetchCodec>>
=============================================================================
