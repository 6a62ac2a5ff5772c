-------------------------- MODULE CollectionProxies --------------------------
(***************************************************************************)
(* The operations of List, Queue, Set, Topic and Ringbuffer, and of the    *)
(* CP subsystem's AtomicLong, AtomicRef and CPMap.                         *)
(***************************************************************************)
EXTENDS ProxyOperations

---------------------------------------------------------------------------
\* proxy_list.go
ItemListenerFields == [includeValue |-> Given("includeValue"), localOnly |-> Given("smart")]

List_addListener ==
    Listening(ListAddListenerCodec, ListAddListenerCodec, <<>>, ItemListenerFields)

---------------------------------------------------------------------------
\* proxy_queue.go
Queue_add(timeout) == OnName(QueueOfferCodec, <<Arg("value")>>, [timeoutMillis |-> timeout])
Queue_poll(timeout) == OnName(QueuePollCodec, <<>>, [timeoutMillis |-> timeout])
Queue_addListener ==
    Listening(QueueAddListenerCodec, QueueAddListenerCodec, <<>>, ItemListenerFields)

---------------------------------------------------------------------------
\* proxy_set.go
Set_addListener == Listening(SetAddListenerCodec, SetAddListenerCodec, <<>>, ItemListenerFields)

---------------------------------------------------------------------------
\* proxy_topic.go
Topic_addListener ==
    Listening(TopicAddMessageListenerCodec, TopicAddMessageListenerCodec, <<>>,
        [localOnly |-> Given("smart")])

---------------------------------------------------------------------------
\* internal/cp/proxy_atomic_long.go
OldValue == Constant(0)
NewValue == Constant(1)

AtomicLong_AddAndGet(delta) == Anywhere(AtomicLongAddAndGetCodec, <<>>, [delta |-> delta])
AtomicLong_GetAndAdd(delta) == Anywhere(AtomicLongGetAndAddCodec, <<>>, [delta |-> delta])
AtomicLong_alter(valueType) ==
    Unread(Anywhere(AtomicLongAlterCodec, <<MayBeNil("function")>>,
        [returnValueType |-> valueType]))
AtomicLong_alterAndReturn(alterValue) ==
    [AtomicLong_alter(alterValue) EXCEPT !.answer = AtomicLongAlterCodec.request.type]

---------------------------------------------------------------------------
\* internal/cp/proxy_atomic_ref.go
AtomicRef_AtomicRefGetData == Anywhere(AtomicRefGetCodec, <<>>, NoFields)
AtomicRef_Contains == Anywhere(AtomicRefContainsCodec, <<MayBeNil("value")>>, NoFields)
AtomicRef_Set ==
    Unread(Anywhere(AtomicRefSetCodec, <<MayBeNil("newValue")>>,
        [returnOldValue |-> Constant(FALSE)]))
AtomicRef_AtomicRefGetAndSetData ==
    Anywhere(AtomicRefSetCodec, <<MayBeNil("newValue")>>, [returnOldValue |-> Constant(TRUE)])

---------------------------------------------------------------------------
\* internal/cp/proxy_cpmap.go
CPMap_CPMapGetData == Anywhere(CpMapGetCodec, <<Arg("key")>>, NoFields)
CPMap_CPMapPutData == Anywhere(CpMapPutCodec, <<Arg("key"), Arg("value")>>, NoFields)
CPMap_CPMapRemoveData == Anywhere(CpMapRemoveCodec, <<Arg("key")>>, NoFields)

---------------------------------------------------------------------------
(***************************************************************************)
(* The exported methods that send a request, in the order of the source:   *)
(* a record holds the methods that stand together there and is named       *)
(* after the first of them.                                                *)
(***************************************************************************)
\* proxy_list.go
ListMethods_Add == [
    List_Add |-> OnName(ListAddCodec, <<Arg("value")>>, NoFields),
    List_AddAt |->
        Indexed(Unread(OnName(ListAddWithIndexCodec, <<Arg("value")>>,
            [index |-> Given("index")]))),
    List_AddAll |-> SkipsEmpty(OnName(ListAddAllCodec, <<Args("valueList")>>, NoFields)),
    List_AddAllAt |->
        Indexed(SkipsEmpty(OnName(ListAddAllWithIndexCodec, <<Args("valueList")>>,
            [index |-> Given("index")]))),
    List_AddListener |-> List_addListener,
    List_Clear |-> Unread(OnName(ListClearCodec, <<>>, NoFields)),
    List_Contains |-> OnName(ListContainsCodec, <<Arg("value")>>, NoFields),
    List_ContainsAll |-> SkipsEmpty(OnName(ListContainsAllCodec, <<Args("values")>>, NoFields)),
    List_Get |-> Indexed(OnName(ListGetCodec, <<>>, [index |-> Given("index")])),
    List_IndexOf |-> OnName(ListIndexOfCodec, <<Arg("value")>>, NoFields)]
ListMethods_IsEmpty == [
    List_IsEmpty |-> OnName(ListIsEmptyCodec, <<>>, NoFields),
    List_LastIndexOf |-> OnName(ListLastIndexOfCodec, <<Arg("value")>>, NoFields),
    List_Remove |-> OnName(ListRemoveCodec, <<Arg("value")>>, NoFields),
    List_RemoveAt |->
        Indexed(OnName(ListRemoveWithIndexCodec, <<>>, [index |-> Given("index")])),
    List_RemoveAll |->
        SkipsEmpty(OnName(ListCompareAndRemoveAllCodec, <<Args("values")>>, NoFields))]
ListMethods_RetainAll == [
    List_RetainAll |->
        SkipsEmpty(OnName(ListCompareAndRetainAllCodec, <<Args("values")>>, NoFields)),
    List_Set |-> Indexed(OnName(ListSetCodec, <<Arg("value")>>, [index |-> Given("index")])),
    List_Size |-> OnName(ListSizeCodec, <<>>, NoFields),
    List_SubList |->
        Indexed(OnName(ListSubCodec, <<>>, [from |-> Given("from"), to |-> Given("to")])),
    List_GetAll |-> OnName(ListGetAllCodec, <<>>, NoFields)]
\* proxy_queue.go
QueueMethods_Add == [
    Queue_Add |-> Queue_add(Constant(0)),
    Queue_AddWithTimeout |-> Queue_add(Millis("timeout")),
    Queue_AddAll |-> SkipsEmpty(OnName(QueueAddAllCodec, <<Args("dataList")>>, NoFields)),
    Queue_AddItemListener |-> Queue_addListener,
    Queue_Clear |-> Unread(OnName(QueueClearCodec, <<>>, NoFields)),
    Queue_Contains |-> OnName(QueueContainsCodec, <<Arg("value")>>, NoFields),
    Queue_ContainsAll |->
        SkipsEmpty(OnName(QueueContainsAllCodec, <<Args("dataList")>>, NoFields)),
    Queue_Drain |-> OnName(QueueDrainToCodec, <<>>, NoFields),
    Queue_DrainWithMaxSize |->
        Indexed(OnName(QueueDrainToMaxSizeCodec, <<>>, [maxSize |-> Given("maxSize")])),
    Queue_GetAll |-> OnName(QueueIteratorCodec, <<>>, NoFields),
    Queue_IsEmpty |-> OnName(QueueIsEmptyCodec, <<>>, NoFields),
    Queue_Peek |-> OnName(QueuePeekCodec, <<>>, NoFields),
    Queue_Poll |-> Queue_poll(Constant(0)),
    Queue_PollWithTimeout |-> Queue_poll(Millis("timeout")),
    Queue_Put |-> Unread(OnName(QueuePutCodec, <<Arg("value")>>, NoFields))]
QueueMethods_RemainingCapacity == [
    Queue_RemainingCapacity |-> OnName(QueueRemainingCapacityCodec, <<>>, NoFields),
    Queue_Remove |-> OnName(QueueRemoveCodec, <<Arg("value")>>, NoFields),
    Queue_RemoveAll |->
        SkipsEmpty(OnName(QueueCompareAndRemoveAllCodec, <<Args("dataList")>>, NoFields))]
QueueMethods_RetainAll == [
    Queue_RetainAll |->
        SkipsEmpty(OnName(QueueCompareAndRetainAllCodec, <<Args("dataList")>>, NoFields)),
    Queue_Size |-> OnName(QueueSizeCodec, <<>>, NoFields),
    Queue_Take |-> OnName(QueueTakeCodec, <<>>, NoFields)]
\* proxy_set.go
SetMethods_Add == [
    Set_Add |-> OnName(SetAddCodec, <<Arg("value")>>, NoFields),
    Set_AddAll |-> SkipsEmpty(OnName(SetAddAllCodec, <<Args("valueList")>>, NoFields)),
    Set_AddItemListener |-> Set_addListener,
    Set_Clear |-> Unread(OnName(SetClearCodec, <<>>, NoFields)),
    Set_Contains |-> OnName(SetContainsCodec, <<Arg("value")>>, NoFields),
    Set_ContainsAll |-> SkipsEmpty(OnName(SetContainsAllCodec, <<Args("items")>>, NoFields)),
    Set_GetAll |-> OnName(SetGetAllCodec, <<>>, NoFields),
    Set_IsEmpty |-> OnName(SetIsEmptyCodec, <<>>, NoFields),
    Set_Remove |-> OnName(SetRemoveCodec, <<Arg("value")>>, NoFields),
    Set_RemoveAll |->
        SkipsEmpty(OnName(SetCompareAndRemoveAllCodec, <<Args("values")>>, NoFields))]
SetMethods_RetainAll == [
    Set_RetainAll |->
        SkipsEmpty(OnName(SetCompareAndRetainAllCodec, <<Args("values")>>, NoFields)),
    Set_Size |-> OnName(SetSizeCodec, <<>>, NoFields)]
\* proxy_topic.go
TopicMethods_AddMessageListener == [
    Topic_AddMessageListener |-> Topic_addListener,
    Topic_Publish |-> Unread(OnName(TopicPublishCodec, <<Arg("message")>>, NoFields)),
    Topic_PublishAll |->
        SkipsEmpty(Unread(OnName(TopicPublishAllCodec, <<Args("messages")>>, NoFields)))]
\* proxy_ring_buffer.go
RingbufferMethods_Add == [
    Ringbuffer_Add |->
        Checked(OnName(RingbufferAddCodec, <<Arg("value")>>,
            [overflowPolicy |-> Given("overflowPolicy")]), {"overflowPolicy"}),
    Ringbuffer_AddAll |->
        Checked(OnName(RingbufferAddAllCodec, <<Args("valueList")>>,
            [overflowPolicy |-> Given("overflowPolicy")]), {"overflowPolicy"}),
    Ringbuffer_ReadOne |->
        OnName(RingbufferReadOneCodec, <<>>, [sequence |-> Given("sequence")]),
    Ringbuffer_Capacity |-> OnName(RingbufferCapacityCodec, <<>>, NoFields),
    Ringbuffer_Size |-> OnName(RingbufferSizeCodec, <<>>, NoFields),
    Ringbuffer_TailSequence |-> OnName(RingbufferTailSequenceCodec, <<>>, NoFields),
    Ringbuffer_HeadSequence |-> OnName(RingbufferHeadSequenceCodec, <<>>, NoFields),
    Ringbuffer_RemainingCapacity |-> OnName(RingbufferRemainingCapacityCodec, <<>>, NoFields)]
RingbufferMethods_ReadMany == [
    Ringbuffer_ReadMany |->
        [Indexed(OnName(RingbufferReadManyCodec, <<MayBeNil("filter")>>,
            [startSequence |-> Given("startSequence"), minCount |-> Given("minCount"),
             maxCount |-> Given("maxCount")])) EXCEPT !.asks = TRUE]]
\* internal/cp/proxy_atomic_long.go
AtomicLongMethods_AddAndGet == [
    AtomicLong_AddAndGet |-> AtomicLong_AddAndGet(Given("delta")),
    AtomicLong_CompareAndSet |->
        Anywhere(AtomicLongCompareAndSetCodec, <<>>,
            [expected |-> Given("expected"), updated |-> Given("updated")]),
    AtomicLong_Get |-> Anywhere(AtomicLongGetCodec, <<>>, NoFields),
    AtomicLong_GetAndAdd |-> AtomicLong_GetAndAdd(Given("delta")),
    AtomicLong_GetAndSet |->
        Anywhere(AtomicLongGetAndSetCodec, <<>>, [newValue |-> Given("newValue")]),
    AtomicLong_Set |->
        Unread(Anywhere(AtomicLongGetAndSetCodec, <<>>, [newValue |-> Given("newValue")])),
    AtomicLong_Apply |-> Anywhere(AtomicLongApplyCodec, <<MayBeNil("function")>>, NoFields)]
AtomicLongMethods_Alter == [
    AtomicLong_Alter |-> AtomicLong_alter(NewValue),
    AtomicLong_GetAndAlter |-> AtomicLong_alterAndReturn(OldValue),
    AtomicLong_AlterAndGet |-> AtomicLong_alterAndReturn(NewValue),
    AtomicLong_IncrementAndGet |-> AtomicLong_AddAndGet(Constant(1)),
    AtomicLong_DecrementAndGet |-> AtomicLong_AddAndGet(Constant(-1)),
    AtomicLong_GetAndDecrement |-> AtomicLong_GetAndAdd(Constant(-1)),
    AtomicLong_GetAndIncrement |-> AtomicLong_GetAndAdd(Constant(1))]
\* internal/cp/proxy_atomic_ref.go
AtomicRefMethods_Clear == [
    AtomicRef_Clear |-> AtomicRef_Set,
    AtomicRef_Contains |-> AtomicRef_Contains,
    AtomicRef_CompareAndSet |->
        Anywhere(AtomicRefCompareAndSetCodec,
            <<MayBeNil("expectedValue"), MayBeNil("newValue")>>, NoFields),
    AtomicRef_Get |-> AtomicRef_AtomicRefGetData,
    AtomicRef_GetAndSet |-> AtomicRef_AtomicRefGetAndSetData,
    AtomicRef_IsNil |-> AtomicRef_Contains,
    AtomicRef_Set |-> AtomicRef_Set]
\* internal/cp/proxy_cpmap.go
CPMapMethods_Set == [
    CPMap_Set |-> Unread(Anywhere(CpMapSetCodec, <<Arg("key"), Arg("value")>>, NoFields)),
    CPMap_Get |-> Swallows(CPMap_CPMapGetData),
    CPMap_Put |-> CPMap_CPMapPutData,
    CPMap_Remove |-> Swallows(CPMap_CPMapRemoveData),
    CPMap_Delete |-> Unread(Anywhere(CpMapDeleteCodec, <<Arg("key")>>, NoFields)),
    CPMap_CompareAndSet |->
        Panics(Anywhere(CpMapCompareAndSetCodec,
            <<Arg("key"), Arg("expectedValue"), Arg("newValue")>>, NoFields))]

CollectionOperations ==
    ListMethods_Add @@ ListMethods_IsEmpty @@ ListMethods_RetainAll @@ QueueMethods_Add @@
    QueueMethods_RemainingCapacity @@ QueueMethods_RetainAll @@ SetMethods_Add @@
    SetMethods_RetainAll @@ TopicMethods_AddMessageListener @@ RingbufferMethods_Add @@
    RingbufferMethods_ReadMany @@ AtomicLongMethods_AddAndGet @@ AtomicLongMethods_Alter @@
    AtomicRefMethods_Clear @@ CPMapMethods_Set
=============================================================================
