----------------------------- MODULE MapCodecs ------------------------------
(***************************************************************************)
(* The messages of maps: one definition per file internal/proto/codec/map_*.go.*)
(***************************************************************************)
EXTENDS BuiltinCodecs

\* the TTL written over the second half of the thread ID
MapPutCodecOverlapping == Codec(
    Request(65792, FALSE, 28, <<LongAt("threadId", 16), LongAt("ttl", 20)>>, <<String, Data, Data>>),
    Response(<<>>, <<NullableData>>), <<>>)

\* the event of the listener without a predicate, copied
MapAddEntryListenerToKeyCodecCopied == Codec(
    Request(71680, FALSE, 22,
            <<BooleanAt("includeValue", 16), IntAt("listenerFlags", 17),
              BooleanAt("localOnly", 21)>>, <<String, Data>>),
    Response(<<UUIDAt("response", 13)>>, <<>>),
    <<Event(71938,
            <<IntAt("eventType", 16), UUIDAt("uuid", 20), IntAt("numberOfAffectedEntries", 37)>>,
            <<NullableData, NullableData, NullableData, NullableData>>)>>)

MapAddEntryListenerCodec == Codec(
    Request(71936, FALSE, 22,
            <<BooleanAt("includeValue", 16), IntAt("listenerFlags", 17),
              BooleanAt("localOnly", 21)>>, <<String>>),
    Response(<<UUIDAt("response", 13)>>, <<>>),
    <<Event(71938,
            <<IntAt("eventType", 16), UUIDAt("uuid", 20), IntAt("numberOfAffectedEntries", 37)>>,
            <<NullableData, NullableData, NullableData, NullableData>>)>>)

MapAddEntryListenerToKeyCodec == Codec(
    Request(71680, FALSE, 22,
            <<BooleanAt("includeValue", 16), IntAt("listenerFlags", 17),
              BooleanAt("localOnly", 21)>>, <<String, Data>>),
    Response(<<UUIDAt("response", 13)>>, <<>>),
    <<Event(71682,
            <<IntAt("eventType", 16), UUIDAt("uuid", 20), IntAt("numberOfAffectedEntries", 37)>>,
            <<NullableData, NullableData, NullableData, NullableData>>)>>)

MapAddEntryListenerToKeyWithPredicateCodec == Codec(
    Request(71168, FALSE, 22,
            <<BooleanAt("includeValue", 16), IntAt("listenerFlags", 17),
              BooleanAt("localOnly", 21)>>, <<String, Data, Data>>),
    Response(<<UUIDAt("response", 13)>>, <<>>),
    <<Event(71170,
            <<IntAt("eventType", 16), UUIDAt("uuid", 20), IntAt("numberOfAffectedEntries", 37)>>,
            <<NullableData, NullableData, NullableData, NullableData>>)>>)

MapAddEntryListenerWithPredicateCodec == Codec(
    Request(71424, FALSE, 22,
            <<BooleanAt("includeValue", 16), IntAt("listenerFlags", 17),
              BooleanAt("localOnly", 21)>>, <<String, Data>>),
    Response(<<UUIDAt("response", 13)>>, <<>>),
    <<Event(71426,
            <<IntAt("eventType", 16), UUIDAt("uuid", 20), IntAt("numberOfAffectedEntries", 37)>>,
            <<NullableData, NullableData, NullableData, NullableData>>)>>)

MapAddIndexCodec == Codec(
    Request(76032, FALSE, 16, <<>>, <<String, IndexConfig>>),
    NoResponse, <<>>)

MapAddInterceptorCodec == Codec(
    Request(70656, FALSE, 16, <<>>, <<String, Data>>),
    Response(<<>>, <<String>>), <<>>)

MapAddNearCacheInvalidationListenerCodec == Codec(
    Request(81664, FALSE, 21, <<IntAt("listenerFlags", 16), BooleanAt("localOnly", 20)>>,
            <<String>>),
    Response(<<UUIDAt("response", 13)>>, <<>>),
    <<Event(81666,
            <<UUIDAt("sourceUuid", 16), UUIDAt("partitionUuid", 33), LongAt("sequence", 50)>>,
            <<NullableData>>),
      Event(81667, <<>>,
            <<DecodeListMultiFrameForData, DecodeListUUID, DecodeListUUID, DecodeListLong>>)>>)

MapAggregateCodec == Codec(
    Request(80128, TRUE, 16, <<>>, <<String, Data>>),
    Response(<<>>, <<NullableData>>), <<>>)

MapAggregateWithPredicateCodec == Codec(
    Request(80384, TRUE, 16, <<>>, <<String, Data, Data>>),
    Response(<<>>, <<NullableData>>), <<>>)

MapClearCodec == Codec(
    Request(77056, FALSE, 16, <<>>, <<String>>),
    NoResponse, <<>>)

MapContainsKeyCodec == Codec(
    Request(67072, TRUE, 24, <<LongAt("threadId", 16)>>, <<String, Data>>),
    Response(<<BooleanAt("response", 13)>>, <<>>), <<>>)

MapContainsValueCodec == Codec(
    Request(67328, TRUE, 16, <<>>, <<String, Data>>),
    Response(<<BooleanAt("response", 13)>>, <<>>), <<>>)

MapDeleteCodec == Codec(
    Request(67840, FALSE, 24, <<LongAt("threadId", 16)>>, <<String, Data>>),
    NoResponse, <<>>)

MapEntriesWithPredicateCodec == Codec(
    Request(75776, TRUE, 16, <<>>, <<String, Data>>),
    Response(<<>>, <<DecodeEntryListForDataAndData>>), <<>>)

MapEntrySetCodec == Codec(
    Request(75008, TRUE, 16, <<>>, <<String>>),
    Response(<<>>, <<DecodeEntryListForDataAndData>>), <<>>)

MapEvictAllCodec == Codec(
    Request(73472, FALSE, 16, <<>>, <<String>>),
    NoResponse, <<>>)

MapEvictCodec == Codec(
    Request(73216, FALSE, 24, <<LongAt("threadId", 16)>>, <<String, Data>>),
    Response(<<BooleanAt("response", 13)>>, <<>>), <<>>)

MapExecuteOnAllKeysCodec == Codec(
    Request(77824, FALSE, 16, <<>>, <<String, Data>>),
    Response(<<>>, <<DecodeEntryListForDataAndData>>), <<>>)

MapExecuteOnKeyCodec == Codec(
    Request(77312, FALSE, 24, <<LongAt("threadId", 16)>>, <<String, Data, Data>>),
    Response(<<>>, <<NullableData>>), <<>>)

MapExecuteOnKeysCodec == Codec(
    Request(78336, FALSE, 16, <<>>, <<String, Data, EncodeListMultiFrameForData>>),
    Response(<<>>, <<DecodeEntryListForDataAndData>>), <<>>)

MapExecuteWithPredicateCodec == Codec(
    Request(78080, FALSE, 16, <<>>, <<String, Data, Data>>),
    Response(<<>>, <<DecodeEntryListForDataAndData>>), <<>>)

MapFetchNearCacheInvalidationMetadataCodec == Codec(
    Request(81152, FALSE, 33, <<UUIDAt("uuid", 16)>>, <<EncodeListMultiFrameForString>>),
    Response(<<>>,
             <<DecodeEntryListForStringAndEntryListIntegerLong, DecodeEntryListIntegerUUID>>), <<>>)

MapFlushCodec == Codec(
    Request(68096, FALSE, 16, <<>>, <<String>>),
    NoResponse, <<>>)

MapForceUnlockCodec == Codec(
    Request(78592, TRUE, 24, <<LongAt("referenceId", 16)>>, <<String, Data>>),
    NoResponse, <<>>)

MapGetAllCodec == Codec(
    Request(74496, FALSE, 16, <<>>, <<String, EncodeListMultiFrameForData>>),
    Response(<<>>, <<DecodeEntryListForDataAndData>>), <<>>)

MapGetCodec == Codec(
    Request(66048, TRUE, 24, <<LongAt("threadId", 16)>>, <<String, Data>>),
    Response(<<>>, <<NullableData>>), <<>>)

MapGetEntryViewCodec == Codec(
    Request(72960, TRUE, 24, <<LongAt("threadId", 16)>>, <<String, Data>>),
    Response(<<LongAt("maxIdle", 13)>>, <<DecodeNullableForSimpleEntryView>>), <<>>)

MapIsEmptyCodec == Codec(
    Request(76544, TRUE, 16, <<>>, <<String>>),
    Response(<<BooleanAt("response", 13)>>, <<>>), <<>>)

MapIsLockedCodec == Codec(
    Request(70144, TRUE, 16, <<>>, <<String, Data>>),
    Response(<<BooleanAt("response", 13)>>, <<>>), <<>>)

MapKeySetCodec == Codec(
    Request(74240, TRUE, 16, <<>>, <<String>>),
    Response(<<>>, <<DecodeListMultiFrameForData>>), <<>>)

MapKeySetWithPredicateCodec == Codec(
    Request(75264, TRUE, 16, <<>>, <<String, Data>>),
    Response(<<>>, <<DecodeListMultiFrameForData>>), <<>>)

MapLoadAllCodec == Codec(
    Request(73728, FALSE, 17, <<BooleanAt("replaceExistingValues", 16)>>, <<String>>),
    NoResponse, <<>>)

MapLoadGivenKeysCodec == Codec(
    Request(73984, FALSE, 17, <<BooleanAt("replaceExistingValues", 16)>>,
            <<String, EncodeListMultiFrameForData>>),
    NoResponse, <<>>)

MapLockCodec == Codec(
    Request(69632, TRUE, 40,
            <<LongAt("threadId", 16), LongAt("ttl", 24), LongAt("referenceId", 32)>>,
            <<String, Data>>),
    NoResponse, <<>>)

MapPutAllCodec == Codec(
    Request(76800, FALSE, 17, <<BooleanAt("triggerMapLoader", 16)>>,
            <<String, EncodeEntryListForDataAndData>>),
    NoResponse, <<>>)

MapPutCodec == Codec(
    Request(65792, FALSE, 32, <<LongAt("threadId", 16), LongAt("ttl", 24)>>,
            <<String, Data, Data>>),
    Response(<<>>, <<NullableData>>), <<>>)

MapPutIfAbsentCodec == Codec(
    Request(69120, FALSE, 32, <<LongAt("threadId", 16), LongAt("ttl", 24)>>,
            <<String, Data, Data>>),
    Response(<<>>, <<NullableData>>), <<>>)

MapPutIfAbsentWithMaxIdleCodec == Codec(
    Request(83456, FALSE, 40, <<LongAt("threadId", 16), LongAt("ttl", 24), LongAt("maxIdle", 32)>>,
            <<String, Data, Data>>),
    Response(<<>>, <<NullableData>>), <<>>)

MapPutTransientCodec == Codec(
    Request(68864, FALSE, 32, <<LongAt("threadId", 16), LongAt("ttl", 24)>>,
            <<String, Data, Data>>),
    NoResponse, <<>>)

MapPutTransientWithMaxIdleCodec == Codec(
    Request(83200, FALSE, 40, <<LongAt("threadId", 16), LongAt("ttl", 24), LongAt("maxIdle", 32)>>,
            <<String, Data, Data>>),
    Response(<<>>, <<NullableData>>), <<>>)

MapPutWithMaxIdleCodec == Codec(
    Request(82944, FALSE, 40, <<LongAt("threadId", 16), LongAt("ttl", 24), LongAt("maxIdle", 32)>>,
            <<String, Data, Data>>),
    Response(<<>>, <<NullableData>>), <<>>)

MapRemoveAllCodec == Codec(
    Request(81408, FALSE, 16, <<>>, <<String, Data>>),
    NoResponse, <<>>)

MapRemoveCodec == Codec(
    Request(66304, FALSE, 24, <<LongAt("threadId", 16)>>, <<String, Data>>),
    Response(<<>>, <<NullableData>>), <<>>)

MapRemoveEntryListenerCodec == Codec(
    Request(72192, TRUE, 33, <<UUIDAt("registrationId", 16)>>, <<String>>),
    Response(<<BooleanAt("response", 13)>>, <<>>), <<>>)

MapRemoveIfSameCodec == Codec(
    Request(67584, FALSE, 24, <<LongAt("threadId", 16)>>, <<String, Data, Data>>),
    Response(<<BooleanAt("response", 13)>>, <<>>), <<>>)

MapRemoveInterceptorCodec == Codec(
    Request(70912, FALSE, 16, <<>>, <<String, String>>),
    Response(<<BooleanAt("response", 13)>>, <<>>), <<>>)

MapReplaceCodec == Codec(
    Request(66560, FALSE, 24, <<LongAt("threadId", 16)>>, <<String, Data, Data>>),
    Response(<<>>, <<NullableData>>), <<>>)

MapReplaceIfSameCodec == Codec(
    Request(66816, FALSE, 24, <<LongAt("threadId", 16)>>, <<String, Data, Data, Data>>),
    Response(<<BooleanAt("response", 13)>>, <<>>), <<>>)

MapSetCodec == Codec(
    Request(69376, FALSE, 32, <<LongAt("threadId", 16), LongAt("ttl", 24)>>,
            <<String, Data, Data>>),
    NoResponse, <<>>)

MapSetTtlCodec == Codec(
    Request(82688, FALSE, 24, <<LongAt("ttl", 16)>>, <<String, Data>>),
    Response(<<BooleanAt("response", 13)>>, <<>>), <<>>)

MapSetWithMaxIdleCodec == Codec(
    Request(83712, FALSE, 40, <<LongAt("threadId", 16), LongAt("ttl", 24), LongAt("maxIdle", 32)>>,
            <<String, Data, Data>>),
    Response(<<>>, <<NullableData>>), <<>>)

MapSizeCodec == Codec(
    Request(76288, TRUE, 16, <<>>, <<String>>),
    Response(<<IntAt("response", 13)>>, <<>>), <<>>)

MapTryLockCodec == Codec(
    Request(69888, TRUE, 48,
            <<LongAt("threadId", 16), LongAt("lease", 24), LongAt("timeout", 32),
              LongAt("referenceId", 40)>>, <<String, Data>>),
    Response(<<BooleanAt("response", 13)>>, <<>>), <<>>)

MapTryPutCodec == Codec(
    Request(68608, FALSE, 32, <<LongAt("threadId", 16), LongAt("timeout", 24)>>,
            <<String, Data, Data>>),
    Response(<<BooleanAt("response", 13)>>, <<>>), <<>>)

MapTryRemoveCodec == Codec(
    Request(68352, FALSE, 32, <<LongAt("threadId", 16), LongAt("timeout", 24)>>, <<String, Data>>),
    Response(<<BooleanAt("response", 13)>>, <<>>), <<>>)

MapUnlockCodec == Codec(
    Request(70400, TRUE, 32, <<LongAt("threadId", 16), LongAt("referenceId", 24)>>,
            <<String, Data>>),
    NoResponse, <<>>)

MapValuesCodec == Codec(
    Request(74752, TRUE, 16, <<>>, <<String>>),
    Response(<<>>, <<DecodeListMultiFrameForData>>), <<>>)

MapValuesWithPredicateCodec == Codec(
    Request(75520, TRUE, 16, <<>>, <<String, Data>>),
    Response(<<>>, <<DecodeListMultiFrameForData>>), <<>>)

MapMessages == <<
    MapAddEntryListenerCodec, MapAddEntryListenerToKeyCodec,
    MapAddEntryListenerToKeyWithPredicateCodec, MapAddEntryListenerWithPredicateCodec,
    MapAddIndexCodec, MapAddInterceptorCodec, MapAddNearCacheInvalidationListenerCodec,
    MapAggregateCodec, MapAggregateWithPredicateCodec, MapClearCodec, MapContainsKeyCodec,
    MapContainsValueCodec, MapDeleteCodec, MapEntriesWithPredicateCodec, MapEntrySetCodec,
    MapEvictAllCodec, MapEvictCodec, MapExecuteOnAllKeysCodec, MapExecuteOnKeyCodec,
    MapExecuteOnKeysCodec, MapExecuteWithPredicateCodec,
    MapFetchNearCacheInvalidationMetadataCodec, MapFlushCodec, MapForceUnlockCodec, MapGetAllCodec,
    MapGetCodec, MapGetEntryViewCodec, MapIsEmptyCodec, MapIsLockedCodec, MapKeySetCodec,
    MapKeySetWithPredicateCodec, MapLoadAllCodec, MapLoadGivenKeysCodec, MapLockCodec,
    MapPutAllCodec, MapPutCodec, MapPutIfAbsentCodec, MapPutIfAbsentWithMaxIdleCodec,
    MapPutTransientCodec, MapPutTransientWithMaxIdleCodec, MapPutWithMaxIdleCodec,
    MapRemoveAllCodec, MapRemoveCodec, MapRemoveEntryListenerCodec, MapRemoveIfSameCodec,
    MapRemoveInterceptorCodec, MapReplaceCodec, MapReplaceIfSameCodec, MapSetCodec, MapSetTtlCodec,
    MapSetWithMaxIdleCodec, MapSizeCodec, MapTryLockCodec, MapTryPutCodec, MapTryRemoveCodec,
    MapUnlockCodec, MapValuesCodec, MapValuesWithPredicateCodec>>
=============================================================================
