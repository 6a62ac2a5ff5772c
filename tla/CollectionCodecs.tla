-------------------------- MODULE CollectionCodecs --------------------------
(***************************************************************************)
(* The messages of lists, sets, queues, multi maps, replicated maps, ring  *)
(* buffers and topics: one definition per file of internal/proto/codec.    *)
(***************************************************************************)
EXTENDS BuiltinCodecs

ListAddAllCodec == Codec(
    Request(329216, FALSE, 16, <<>>, <<String, EncodeListMultiFrameForData>>),
    Response(<<BooleanAt("response", 13)>>, <<>>), <<>>)

ListAddAllWithIndexCodec == Codec(
    Request(331264, FALSE, 20, <<IntAt("index", 16)>>, <<String, EncodeListMultiFrameForData>>),
    Response(<<BooleanAt("response", 13)>>, <<>>), <<>>)

ListAddCodec == Codec(
    Request(328704, FALSE, 16, <<>>, <<String, Data>>),
    Response(<<BooleanAt("response", 13)>>, <<>>), <<>>)

ListAddListenerCodec == Codec(
    Request(330496, FALSE, 18, <<BooleanAt("includeValue", 16), BooleanAt("localOnly", 17)>>,
            <<String>>),
    Response(<<UUIDAt("response", 13)>>, <<>>),
    <<Event(330498, <<UUIDAt("uuid", 16), IntAt("eventType", 33)>>, <<NullableData>>)>>)

ListAddWithIndexCodec == Codec(
    Request(332032, FALSE, 20, <<IntAt("index", 16)>>, <<String, Data>>),
    NoResponse, <<>>)

ListClearCodec == Codec(
    Request(329984, FALSE, 16, <<>>, <<String>>),
    NoResponse, <<>>)

ListCompareAndRemoveAllCodec == Codec(
    Request(329472, FALSE, 16, <<>>, <<String, EncodeListMultiFrameForData>>),
    Response(<<BooleanAt("response", 13)>>, <<>>), <<>>)

ListCompareAndRetainAllCodec == Codec(
    Request(329728, FALSE, 16, <<>>, <<String, EncodeListMultiFrameForData>>),
    Response(<<BooleanAt("response", 13)>>, <<>>), <<>>)

ListContainsAllCodec == Codec(
    Request(328448, TRUE, 16, <<>>, <<String, EncodeListMultiFrameForData>>),
    Response(<<BooleanAt("response", 13)>>, <<>>), <<>>)

ListContainsCodec == Codec(
    Request(328192, TRUE, 16, <<>>, <<String, Data>>),
    Response(<<BooleanAt("response", 13)>>, <<>>), <<>>)

ListGetAllCodec == Codec(
    Request(330240, TRUE, 16, <<>>, <<String>>),
    Response(<<>>, <<DecodeListMultiFrameForData>>), <<>>)

ListGetCodec == Codec(
    Request(331520, TRUE, 20, <<IntAt("index", 16)>>, <<String>>),
    Response(<<>>, <<NullableData>>), <<>>)

ListIndexOfCodec == Codec(
    Request(332800, TRUE, 16, <<>>, <<String, Data>>),
    Response(<<IntAt("response", 13)>>, <<>>), <<>>)

ListIsEmptyCodec == Codec(
    Request(331008, TRUE, 16, <<>>, <<String>>),
    Response(<<BooleanAt("response", 13)>>, <<>>), <<>>)

ListLastIndexOfCodec == Codec(
    Request(332544, TRUE, 16, <<>>, <<String, Data>>),
    Response(<<IntAt("response", 13)>>, <<>>), <<>>)

ListRemoveCodec == Codec(
    Request(328960, FALSE, 16, <<>>, <<String, Data>>),
    Response(<<BooleanAt("response", 13)>>, <<>>), <<>>)

ListRemoveListenerCodec == Codec(
    Request(330752, TRUE, 33, <<UUIDAt("registrationId", 16)>>, <<String>>),
    Response(<<BooleanAt("response", 13)>>, <<>>), <<>>)

ListRemoveWithIndexCodec == Codec(
    Request(332288, FALSE, 20, <<IntAt("index", 16)>>, <<String>>),
    Response(<<>>, <<NullableData>>), <<>>)

ListSetCodec == Codec(
    Request(331776, FALSE, 20, <<IntAt("index", 16)>>, <<String, Data>>),
    Response(<<>>, <<NullableData>>), <<>>)

ListSizeCodec == Codec(
    Request(327936, TRUE, 16, <<>>, <<String>>),
    Response(<<IntAt("response", 13)>>, <<>>), <<>>)

ListSubCodec == Codec(
    Request(333056, TRUE, 24, <<IntAt("from", 16), IntAt("to", 20)>>, <<String>>),
    Response(<<>>, <<DecodeListMultiFrameForData>>), <<>>)

MultiMapClearCodec == Codec(
    Request(133888, FALSE, 16, <<>>, <<String>>),
    NoResponse, <<>>)

MultiMapContainsEntryCodec == Codec(
    Request(133376, TRUE, 24, <<LongAt("threadId", 16)>>, <<String, Data, Data>>),
    Response(<<BooleanAt("response", 13)>>, <<>>), <<>>)

MultiMapContainsKeyCodec == Codec(
    Request(132864, TRUE, 24, <<LongAt("threadId", 16)>>, <<String, Data>>),
    Response(<<BooleanAt("response", 13)>>, <<>>), <<>>)

MultiMapContainsValueCodec == Codec(
    Request(133120, TRUE, 16, <<>>, <<String, Data>>),
    Response(<<BooleanAt("response", 13)>>, <<>>), <<>>)

MultiMapDeleteCodec == Codec(
    Request(136704, FALSE, 24, <<LongAt("threadId", 16)>>, <<String, Data>>),
    NoResponse, <<>>)

MultiMapEntrySetCodec == Codec(
    Request(132608, TRUE, 16, <<>>, <<String>>),
    Response(<<>>, <<DecodeEntryListForDataAndData>>), <<>>)

MultiMapForceUnlockCodec == Codec(
    Request(136192, TRUE, 24, <<LongAt("referenceId", 16)>>, <<String, Data>>),
    NoResponse, <<>>)

MultiMapGetCodec == Codec(
    Request(131584, TRUE, 24, <<LongAt("threadId", 16)>>, <<String, Data>>),
    Response(<<>>, <<DecodeListMultiFrameForData>>), <<>>)

MultiMapIsLockedCodec == Codec(
    Request(135680, TRUE, 16, <<>>, <<String, Data>>),
    Response(<<BooleanAt("response", 13)>>, <<>>), <<>>)

MultiMapKeySetCodec == Codec(
    Request(132096, TRUE, 16, <<>>, <<String>>),
    Response(<<>>, <<DecodeListMultiFrameForData>>), <<>>)

MultiMapLockCodec == Codec(
    Request(135168, TRUE, 40,
            <<LongAt("threadId", 16), LongAt("ttl", 24), LongAt("referenceId", 32)>>,
            <<String, Data>>),
    NoResponse, <<>>)

MultiMapPutAllCodec == Codec(
    Request(136960, FALSE, 16, <<>>, <<String, EncodeEntryListForDataAndListData>>),
    NoResponse, <<>>)

MultiMapPutCodec == Codec(
    Request(131328, FALSE, 24, <<LongAt("threadId", 16)>>, <<String, Data, Data>>),
    Response(<<BooleanAt("response", 13)>>, <<>>), <<>>)

MultiMapRemoveCodec == Codec(
    Request(131840, FALSE, 24, <<LongAt("threadId", 16)>>, <<String, Data>>),
    Response(<<>>, <<DecodeListMultiFrameForData>>), <<>>)

MultiMapRemoveEntryCodec == Codec(
    Request(136448, FALSE, 24, <<LongAt("threadId", 16)>>, <<String, Data, Data>>),
    Response(<<BooleanAt("response", 13)>>, <<>>), <<>>)

MultiMapSizeCodec == Codec(
    Request(133632, TRUE, 16, <<>>, <<String>>),
    Response(<<IntAt("response", 13)>>, <<>>), <<>>)

MultiMapTryLockCodec == Codec(
    Request(135424, TRUE, 48,
            <<LongAt("threadId", 16), LongAt("lease", 24), LongAt("timeout", 32),
              LongAt("referenceId", 40)>>, <<String, Data>>),
    Response(<<BooleanAt("response", 13)>>, <<>>), <<>>)

MultiMapUnlockCodec == Codec(
    Request(135936, TRUE, 32, <<LongAt("threadId", 16), LongAt("referenceId", 24)>>,
            <<String, Data>>),
    NoResponse, <<>>)

MultiMapValueCountCodec == Codec(
    Request(134144, TRUE, 24, <<LongAt("threadId", 16)>>, <<String, Data>>),
    Response(<<IntAt("response", 13)>>, <<>>), <<>>)

MultiMapValuesCodec == Codec(
    Request(132352, TRUE, 16, <<>>, <<String>>),
    Response(<<>>, <<DecodeListMultiFrameForData>>), <<>>)

QueueAddAllCodec == Codec(
    Request(200704, FALSE, 16, <<>>, <<String, EncodeListMultiFrameForData>>),
    Response(<<BooleanAt("response", 13)>>, <<>>), <<>>)

QueueAddListenerCodec == Codec(
    Request(200960, FALSE, 18, <<BooleanAt("includeValue", 16), BooleanAt("localOnly", 17)>>,
            <<String>>),
    Response(<<UUIDAt("response", 13)>>, <<>>),
    <<Event(200962, <<UUIDAt("uuid", 16), IntAt("eventType", 33)>>, <<NullableData>>)>>)

QueueClearCodec == Codec(
    Request(200448, FALSE, 16, <<>>, <<String>>),
    NoResponse, <<>>)

QueueCompareAndRemoveAllCodec == Codec(
    Request(199936, FALSE, 16, <<>>, <<String, EncodeListMultiFrameForData>>),
    Response(<<BooleanAt("response", 13)>>, <<>>), <<>>)

QueueCompareAndRetainAllCodec == Codec(
    Request(200192, FALSE, 16, <<>>, <<String, EncodeListMultiFrameForData>>),
    Response(<<BooleanAt("response", 13)>>, <<>>), <<>>)

QueueContainsAllCodec == Codec(
    Request(199680, FALSE, 16, <<>>, <<String, EncodeListMultiFrameForData>>),
    Response(<<BooleanAt("response", 13)>>, <<>>), <<>>)

QueueContainsCodec == Codec(
    Request(199424, FALSE, 16, <<>>, <<String, Data>>),
    Response(<<BooleanAt("response", 13)>>, <<>>), <<>>)

QueueDrainToCodec == Codec(
    Request(198912, FALSE, 16, <<>>, <<String>>),
    Response(<<>>, <<DecodeListMultiFrameForData>>), <<>>)

QueueDrainToMaxSizeCodec == Codec(
    Request(199168, FALSE, 20, <<IntAt("maxSize", 16)>>, <<String>>),
    Response(<<>>, <<DecodeListMultiFrameForData>>), <<>>)

QueueIsEmptyCodec == Codec(
    Request(201728, FALSE, 16, <<>>, <<String>>),
    Response(<<BooleanAt("response", 13)>>, <<>>), <<>>)

QueueIteratorCodec == Codec(
    Request(198656, FALSE, 16, <<>>, <<String>>),
    Response(<<>>, <<DecodeListMultiFrameForData>>), <<>>)

QueueOfferCodec == Codec(
    Request(196864, FALSE, 24, <<LongAt("timeoutMillis", 16)>>, <<String, Data>>),
    Response(<<BooleanAt("response", 13)>>, <<>>), <<>>)

QueuePeekCodec == Codec(
    Request(198400, FALSE, 16, <<>>, <<String>>),
    Response(<<>>, <<NullableData>>), <<>>)

QueuePollCodec == Codec(
    Request(197888, FALSE, 24, <<LongAt("timeoutMillis", 16)>>, <<String>>),
    Response(<<>>, <<NullableData>>), <<>>)

QueuePutCodec == Codec(
    Request(197120, FALSE, 16, <<>>, <<String, Data>>),
    NoResponse, <<>>)

QueueRemainingCapacityCodec == Codec(
    Request(201472, FALSE, 16, <<>>, <<String>>),
    Response(<<IntAt("response", 13)>>, <<>>), <<>>)

QueueRemoveCodec == Codec(
    Request(197632, FALSE, 16, <<>>, <<String, Data>>),
    Response(<<BooleanAt("response", 13)>>, <<>>), <<>>)

QueueRemoveListenerCodec == Codec(
    Request(201216, TRUE, 33, <<UUIDAt("registrationId", 16)>>, <<String>>),
    Response(<<BooleanAt("response", 13)>>, <<>>), <<>>)

QueueSizeCodec == Codec(
    Request(197376, FALSE, 16, <<>>, <<String>>),
    Response(<<IntAt("response", 13)>>, <<>>), <<>>)

QueueTakeCodec == Codec(
    Request(198144, FALSE, 16, <<>>, <<String>>),
    Response(<<>>, <<NullableData>>), <<>>)

ReplicatedMapAddEntryListenerCodec == Codec(
    Request(855296, FALSE, 17, <<BooleanAt("localOnly", 16)>>, <<String>>),
    Response(<<UUIDAt("response", 13)>>, <<>>),
    <<Event(855298,
            <<IntAt("eventType", 16), UUIDAt("uuid", 20), IntAt("numberOfAffectedEntries", 37)>>,
            <<NullableData, NullableData, NullableData, NullableData>>)>>)

ReplicatedMapAddEntryListenerToKeyCodec == Codec(
    Request(855040, FALSE, 17, <<BooleanAt("localOnly", 16)>>, <<String, Data>>),
    Response(<<UUIDAt("response", 13)>>, <<>>),
    <<Event(855042,
            <<IntAt("eventType", 16), UUIDAt("uuid", 20), IntAt("numberOfAffectedEntries", 37)>>,
            <<NullableData, NullableData, NullableData, NullableData>>)>>)

ReplicatedMapAddEntryListenerToKeyWithPredicateCodec == Codec(
    Request(854528, FALSE, 17, <<BooleanAt("localOnly", 16)>>, <<String, Data, Data>>),
    Response(<<UUIDAt("response", 13)>>, <<>>),
    <<Event(854530,
            <<IntAt("eventType", 16), UUIDAt("uuid", 20), IntAt("numberOfAffectedEntries", 37)>>,
            <<NullableData, NullableData, NullableData, NullableData>>)>>)

ReplicatedMapAddEntryListenerWithPredicateCodec == Codec(
    Request(854784, FALSE, 17, <<BooleanAt("localOnly", 16)>>, <<String, Data>>),
    Response(<<UUIDAt("response", 13)>>, <<>>),
    <<Event(854786,
            <<IntAt("eventType", 16), UUIDAt("uuid", 20), IntAt("numberOfAffectedEntries", 37)>>,
            <<NullableData, NullableData, NullableData, NullableData>>)>>)

ReplicatedMapClearCodec == Codec(
    Request(854272, FALSE, 16, <<>>, <<String>>),
    NoResponse, <<>>)

ReplicatedMapContainsKeyCodec == Codec(
    Request(852992, TRUE, 16, <<>>, <<String, Data>>),
    Response(<<BooleanAt("response", 13)>>, <<>>), <<>>)

ReplicatedMapContainsValueCodec == Codec(
    Request(853248, TRUE, 16, <<>>, <<String, Data>>),
    Response(<<BooleanAt("response", 13)>>, <<>>), <<>>)

ReplicatedMapEntrySetCodec == Codec(
    Request(856320, TRUE, 16, <<>>, <<String>>),
    Response(<<>>, <<DecodeEntryListForDataAndData>>), <<>>)

ReplicatedMapGetCodec == Codec(
    Request(853504, TRUE, 16, <<>>, <<String, Data>>),
    Response(<<>>, <<NullableData>>), <<>>)

ReplicatedMapIsEmptyCodec == Codec(
    Request(852736, TRUE, 16, <<>>, <<String>>),
    Response(<<BooleanAt("response", 13)>>, <<>>), <<>>)

ReplicatedMapKeySetCodec == Codec(
    Request(855808, TRUE, 16, <<>>, <<String>>),
    Response(<<>>, <<DecodeListMultiFrameForData>>), <<>>)

ReplicatedMapPutAllCodec == Codec(
    Request(854016, FALSE, 16, <<>>, <<String, EncodeEntryListForDataAndData>>),
    NoResponse, <<>>)

ReplicatedMapPutCodec == Codec(
    Request(852224, FALSE, 24, <<LongAt("ttl", 16)>>, <<String, Data, Data>>),
    Response(<<>>, <<NullableData>>), <<>>)

ReplicatedMapRemoveCodec == Codec(
    Request(853760, FALSE, 16, <<>>, <<String, Data>>),
    Response(<<>>, <<NullableData>>), <<>>)

ReplicatedMapRemoveEntryListenerCodec == Codec(
    Request(855552, TRUE, 33, <<UUIDAt("registrationId", 16)>>, <<String>>),
    Response(<<BooleanAt("response", 13)>>, <<>>), <<>>)

ReplicatedMapSizeCodec == Codec(
    Request(852480, TRUE, 16, <<>>, <<String>>),
    Response(<<IntAt("response", 13)>>, <<>>), <<>>)

ReplicatedMapValuesCodec == Codec(
    Request(856064, TRUE, 16, <<>>, <<String>>),
    Response(<<>>, <<DecodeListMultiFrameForData>>), <<>>)

RingbufferAddAllCodec == Codec(
    Request(1509376, FALSE, 20, <<IntAt("overflowPolicy", 16)>>,
            <<String, EncodeListMultiFrameForData>>),
    Response(<<LongAt("response", 13)>>, <<>>), <<>>)

RingbufferAddCodec == Codec(
    Request(1508864, FALSE, 20, <<IntAt("overflowPolicy", 16)>>, <<String, Data>>),
    Response(<<LongAt("response", 13)>>, <<>>), <<>>)

RingbufferCapacityCodec == Codec(
    Request(1508352, TRUE, 16, <<>>, <<String>>),
    Response(<<LongAt("response", 13)>>, <<>>), <<>>)

RingbufferHeadSequenceCodec == Codec(
    Request(1508096, TRUE, 16, <<>>, <<String>>),
    Response(<<LongAt("response", 13)>>, <<>>), <<>>)

RingbufferReadManyCodec == Codec(
    Request(1509632, TRUE, 32,
            <<LongAt("startSequence", 16), IntAt("minCount", 24), IntAt("maxCount", 28)>>,
            <<String, NullableData>>),
    Response(<<IntAt("readCount", 13), LongAt("nextSeq", 17)>>,
             <<DecodeListMultiFrameForData, DecodeNullableForLongArray>>), <<>>)

RingbufferReadOneCodec == Codec(
    Request(1509120, TRUE, 24, <<LongAt("sequence", 16)>>, <<String>>),
    Response(<<>>, <<NullableData>>), <<>>)

RingbufferRemainingCapacityCodec == Codec(
    Request(1508608, TRUE, 16, <<>>, <<String>>),
    Response(<<LongAt("response", 13)>>, <<>>), <<>>)

RingbufferSizeCodec == Codec(
    Request(1507584, TRUE, 16, <<>>, <<String>>),
    Response(<<LongAt("response", 13)>>, <<>>), <<>>)

RingbufferTailSequenceCodec == Codec(
    Request(1507840, TRUE, 16, <<>>, <<String>>),
    Response(<<LongAt("response", 13)>>, <<>>), <<>>)

SetAddAllCodec == Codec(
    Request(394752, FALSE, 16, <<>>, <<String, EncodeListMultiFrameForData>>),
    Response(<<BooleanAt("response", 13)>>, <<>>), <<>>)

SetAddCodec == Codec(
    Request(394240, FALSE, 16, <<>>, <<String, Data>>),
    Response(<<BooleanAt("response", 13)>>, <<>>), <<>>)

SetAddListenerCodec == Codec(
    Request(396032, FALSE, 18, <<BooleanAt("includeValue", 16), BooleanAt("localOnly", 17)>>,
            <<String>>),
    Response(<<UUIDAt("response", 13)>>, <<>>),
    <<Event(396034, <<UUIDAt("uuid", 16), IntAt("eventType", 33)>>, <<NullableData>>)>>)

SetClearCodec == Codec(
    Request(395520, FALSE, 16, <<>>, <<String>>),
    NoResponse, <<>>)

SetCompareAndRemoveAllCodec == Codec(
    Request(395008, FALSE, 16, <<>>, <<String, EncodeListMultiFrameForData>>),
    Response(<<BooleanAt("response", 13)>>, <<>>), <<>>)

SetCompareAndRetainAllCodec == Codec(
    Request(395264, FALSE, 16, <<>>, <<String, EncodeListMultiFrameForData>>),
    Response(<<BooleanAt("response", 13)>>, <<>>), <<>>)

SetContainsAllCodec == Codec(
    Request(393984, FALSE, 16, <<>>, <<String, EncodeListMultiFrameForData>>),
    Response(<<BooleanAt("response", 13)>>, <<>>), <<>>)

SetContainsCodec == Codec(
    Request(393728, FALSE, 16, <<>>, <<String, Data>>),
    Response(<<BooleanAt("response", 13)>>, <<>>), <<>>)

SetGetAllCodec == Codec(
    Request(395776, FALSE, 16, <<>>, <<String>>),
    Response(<<>>, <<DecodeListMultiFrameForData>>), <<>>)

SetIsEmptyCodec == Codec(
    Request(396544, FALSE, 16, <<>>, <<String>>),
    Response(<<BooleanAt("response", 13)>>, <<>>), <<>>)

SetRemoveCodec == Codec(
    Request(394496, FALSE, 16, <<>>, <<String, Data>>),
    Response(<<BooleanAt("response", 13)>>, <<>>), <<>>)

SetRemoveListenerCodec == Codec(
    Request(396288, TRUE, 33, <<UUIDAt("registrationId", 16)>>, <<String>>),
    Response(<<BooleanAt("response", 13)>>, <<>>), <<>>)

SetSizeCodec == Codec(
    Request(393472, FALSE, 16, <<>>, <<String>>),
    Response(<<IntAt("response", 13)>>, <<>>), <<>>)

TopicAddMessageListenerCodec == Codec(
    Request(262656, FALSE, 17, <<BooleanAt("localOnly", 16)>>, <<String>>),
    Response(<<UUIDAt("response", 13)>>, <<>>),
    <<Event(262658, <<LongAt("publishTime", 16), UUIDAt("uuid", 24)>>, <<Data>>)>>)

TopicPublishAllCodec == Codec(
    Request(263168, FALSE, 16, <<>>, <<String, EncodeListMultiFrameForData>>),
    NoResponse, <<>>)

TopicPublishCodec == Codec(
    Request(262400, FALSE, 16, <<>>, <<String, Data>>),
    NoResponse, <<>>)

TopicRemoveMessageListenerCodec == Codec(
    Request(262912, TRUE, 33, <<UUIDAt("registrationId", 16)>>, <<String>>),
    Response(<<BooleanAt("response", 13)>>, <<>>), <<>>)

CollectionMessages == <<
    ListAddAllCodec, ListAddAllWithIndexCodec, ListAddCodec, ListAddListenerCodec,
    ListAddWithIndexCodec, ListClearCodec, ListCompareAndRemoveAllCodec,
    ListCompareAndRetainAllCodec, ListContainsAllCodec, ListContainsCodec, ListGetAllCodec,
    ListGetCodec, ListIndexOfCodec, ListIsEmptyCodec, ListLastIndexOfCodec, ListRemoveCodec,
    ListRemoveListenerCodec, ListRemoveWithIndexCodec, ListSetCodec, ListSizeCodec, ListSubCodec,
    MultiMapClearCodec, MultiMapContainsEntryCodec, MultiMapContainsKeyCodec,
    MultiMapContainsValueCodec, MultiMapDeleteCodec, MultiMapEntrySetCodec,
    MultiMapForceUnlockCodec, MultiMapGetCodec, MultiMapIsLockedCodec, MultiMapKeySetCodec,
    MultiMapLockCodec, MultiMapPutAllCodec, MultiMapPutCodec, MultiMapRemoveCodec,
    MultiMapRemoveEntryCodec, MultiMapSizeCodec, MultiMapTryLockCodec, MultiMapUnlockCodec,
    MultiMapValueCountCodec, MultiMapValuesCodec, QueueAddAllCodec, QueueAddListenerCodec,
    QueueClearCodec, QueueCompareAndRemoveAllCodec, QueueCompareAndRetainAllCodec,
    QueueContainsAllCodec, QueueContainsCodec, QueueDrainToCodec, QueueDrainToMaxSizeCodec,
    QueueIsEmptyCodec, QueueIteratorCodec, QueueOfferCodec, QueuePeekCodec, QueuePollCodec,
    QueuePutCodec, QueueRemainingCapacityCodec, QueueRemoveCodec, QueueRemoveListenerCodec,
    QueueSizeCodec, QueueTakeCodec, ReplicatedMapAddEntryListenerCodec,
    ReplicatedMapAddEntryListenerToKeyCodec, ReplicatedMapAddEntryListenerToKeyWithPredicateCodec,
    ReplicatedMapAddEntryListenerWithPredicateCodec, ReplicatedMapClearCodec,
    ReplicatedMapContainsKeyCodec, ReplicatedMapContainsValueCodec, ReplicatedMapEntrySetCodec,
    ReplicatedMapGetCodec, ReplicatedMapIsEmptyCodec, ReplicatedMapKeySetCodec,
    ReplicatedMapPutAllCodec, ReplicatedMapPutCodec, ReplicatedMapRemoveCodec,
    ReplicatedMapRemoveEntryListenerCodec, ReplicatedMapSizeCodec, ReplicatedMapValuesCodec,
    RingbufferAddAllCodec, RingbufferAddCodec, RingbufferCapacityCodec,
    RingbufferHeadSequenceCodec, RingbufferReadManyCodec, RingbufferReadOneCodec,
    RingbufferRemainingCapacityCodec, RingbufferSizeCodec, RingbufferTailSequenceCodec,
    SetAddAllCodec, SetAddCodec, SetAddListenerCodec, SetClearCodec, SetCompareAndRemoveAllCodec,
    SetCompareAndRetainAllCodec, SetContainsAllCodec, SetContainsCodec, SetGetAllCodec,
    SetIsEmptyCodec, SetRemoveCodec, SetRemoveListenerCodec, SetSizeCodec,
    TopicAddMessageListenerCodec, TopicPublishAllCodec, TopicPublishCodec,
    TopicRemoveMessageListenerCodec>>
=============================================================================
