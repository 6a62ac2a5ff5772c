----------------------------- MODULE MapProxies ------------------------------
(***************************************************************************)
(* The operations of Map, MultiMap and ReplicatedMap.  A method of the     *)
(* source is called Structure_method: the unexported ones are definitions, *)
(* the exported ones fields of the records at the end of the module.  A    *)
(* method that only calls another one with some arguments fixed is that    *)
(* call.                                                                   *)
(***************************************************************************)
EXTENDS ProxyOperations

---------------------------------------------------------------------------
\* proxy_map.go
Map_clearFromRemote == Unread(Anywhere(MapClearCodec, <<>>, NoFields))
Map_containsKeyFromRemote == OnKey(MapContainsKeyCodec, <<Arg("key")>>, [threadId |-> LockID])
Map_evictFromRemote == OnKey(MapEvictCodec, <<Arg("key")>>, [threadId |-> LockID])
Map_evictAllFromRemote == Unread(Anywhere(MapEvictAllCodec, <<>>, NoFields))
Map_executeOnKeyFromRemote ==
    OnKey(MapExecuteOnKeyCodec, <<Arg("entryProcessor"), Arg("key")>>, [threadId |-> LockID])
Map_executeOnKeysFromRemote ==
    SkipsEmpty(Anywhere(MapExecuteOnKeysCodec, <<Arg("entryProcessor"), Args("keys")>>,
        NoFields))
Map_getFromRemote == OnKey(MapGetCodec, <<Arg("key")>>, [threadId |-> LockID])
Map_deleteFromRemote == Unread(OnKey(MapDeleteCodec, <<Arg("key")>>, [threadId |-> LockID]))
Map_putWithTTLFromRemote(ttl) ==
    OnKey(MapPutCodec, <<Arg("key"), Arg("value")>>, [threadId |-> LockID, ttl |-> ttl])
Map_putWithMaxIdleFromRemote(ttl, maxIdle) ==
    OnKey(MapPutWithMaxIdleCodec, <<Arg("key"), Arg("value")>>,
        [threadId |-> LockID, ttl |-> ttl, maxIdle |-> maxIdle])
Map_putTransientWithTTLFromRemote(ttl) ==
    Unread(OnKey(MapPutTransientCodec, <<Arg("key"), Arg("value")>>,
        [threadId |-> LockID, ttl |-> ttl]))
Map_putTransientWithTTLAndMaxIdleFromRemote(ttl, maxIdle) ==
    Unread(OnKey(MapPutTransientWithMaxIdleCodec, <<Arg("key"), Arg("value")>>,
        [threadId |-> LockID, ttl |-> ttl, maxIdle |-> maxIdle]))
Map_putIfAbsentWithTTLFromRemote(ttl) ==
    OnKey(MapPutIfAbsentCodec, <<Arg("key"), Arg("value")>>, [threadId |-> LockID, ttl |-> ttl])
Map_putIfAbsentWithTTLAndMaxIdleFromRemote ==
    OnKey(MapPutIfAbsentWithMaxIdleCodec, <<Arg("key"), Arg("value")>>,
        [threadId |-> LockID, ttl |-> Millis("ttl"), maxIdle |-> Millis("maxIdle")])
Map_removeFromRemote == OnKey(MapRemoveCodec, <<Arg("key")>>, [threadId |-> LockID])
Map_removeAllFromRemote == Unread(Anywhere(MapRemoveAllCodec, <<Arg("predicate")>>, NoFields))
Map_replaceFromRemote ==
    OnKey(MapReplaceCodec, <<Arg("key"), Arg("value")>>, [threadId |-> LockID])
Map_replaceIfSameFromRemote ==
    OnKey(MapReplaceIfSameCodec, <<Arg("key"), Arg("testValue"), Arg("value")>>,
        [threadId |-> LockID])
Map_removeIfSameFromRemote ==
    OnKey(MapRemoveIfSameCodec, <<Arg("key"), Arg("value")>>, [threadId |-> LockID])
Map_setFromRemote(ttl) ==
    Unread(OnKey(MapSetCodec, <<Arg("key"), Arg("value")>>, [threadId |-> LockID, ttl |-> ttl]))
Map_setWithTTLAndMaxIdleFromRemote ==
    Unread(OnKey(MapSetWithMaxIdleCodec, <<Arg("key"), Arg("value")>>,
        [threadId |-> LockID, ttl |-> Millis("ttl"), maxIdle |-> Millis("maxIdle")]))
Map_tryRemoveFromRemote(timeout) ==
    OnKey(MapTryRemoveCodec, <<Arg("key")>>, [threadId |-> LockID, timeout |-> timeout])
Map_tryPutFromRemote(timeout) ==
    OnKey(MapTryPutCodec, <<Arg("key"), Arg("value")>>,
        [threadId |-> LockID, timeout |-> timeout])
Map_lock(ttl) ==
    Unread(OnKey(MapLockCodec, <<Arg("key")>>,
        [threadId |-> LockID, ttl |-> ttl, referenceId |-> Reference]))
\* as it would be if tryLock did not look at the context
Map_tryLockAsNobody(lease, timeout) ==
    OnKey(MapTryLockCodec, <<Arg("key")>>,
        [threadId |-> Constant(0), lease |-> lease, timeout |-> timeout, referenceId |-> Reference])
Map_tryLock(lease, timeout) ==
    OnKey(MapTryLockCodec, <<Arg("key")>>,
        [threadId |-> LockID, lease |-> lease, timeout |-> timeout, referenceId |-> Reference])
Map_loadAllFromRemote(replaceExisting) ==
    Unread(Anywhere(MapLoadGivenKeysCodec, <<Args("keys")>>,
        [replaceExistingValues |-> replaceExisting]))
Map_loadAll(replaceExisting) == SkipsEmpty(Map_loadAllFromRemote(replaceExisting))
Map_putAllFromRemote ==
    Unread(PerPartition(MapPutAllCodec, <<Args("entries")>>,
        [triggerMapLoader |-> Constant(TRUE)]))
Map_getAllFromRemote == PerPartition(MapGetAllCodec, <<Args("keys")>>, NoFields)
Map_getAll == Map_getAllFromRemote
Map_addIndex ==
    Checked(Unread(Anywhere(MapAddIndexCodec, <<Plain("indexConfig")>>, NoFields)),
        {"indexConfig"})
Map_putWithTTL(ttl) == Map_putWithTTLFromRemote(ttl)
Map_putWithMaxIdle(ttl, maxIdle) == Map_putWithMaxIdleFromRemote(ttl, maxIdle)
Map_putIfAbsentWithTTL(ttl) == Map_putIfAbsentWithTTLFromRemote(ttl)
Map_putTransientWithTTL(ttl) == Map_putTransientWithTTLFromRemote(ttl)
Map_putTransientWithTTLAndMaxIdle(ttl, maxIdle) ==
    Map_putTransientWithTTLAndMaxIdleFromRemote(ttl, maxIdle)
Map_set(ttl) == Map_setFromRemote(ttl)
Map_tryPut(timeout) == Map_tryPutFromRemote(timeout)
Map_tryRemove(timeout) == Map_tryRemoveFromRemote(timeout)

---------------------------------------------------------------------------
\* proxy_multi_map.go
MultiMap_lock(ttl) ==
    Unread(OnKey(MultiMapLockCodec, <<Arg("key")>>,
        [threadId |-> LockID, ttl |-> ttl, referenceId |-> Reference]))
MultiMap_put == OnKey(MultiMapPutCodec, <<Arg("key"), Arg("value")>>, [threadId |-> LockID])
MultiMap_tryLock(lease, timeout) ==
    OnKey(MultiMapTryLockCodec, <<Arg("key")>>,
        [threadId |-> LockID, lease |-> lease, timeout |-> timeout, referenceId |-> Reference])

---------------------------------------------------------------------------
\* proxy_replicated_map.go

---------------------------------------------------------------------------
(***************************************************************************)
(* Entry listeners.  Which request registers the listener, and which       *)
(* codec reads its events, is chosen twice, by whether there is a key and  *)
(* a predicate.                                                            *)
(***************************************************************************)
MapListenerFields ==
    [includeValue |-> Given("includeValue"), listenerFlags |-> Given("flags"), localOnly |-> Given("smart")]

Map_makeListenerRequest(key, predicate) ==
    IF key THEN IF predicate THEN MapAddEntryListenerToKeyWithPredicateCodec ELSE MapAddEntryListenerToKeyCodec
    ELSE IF predicate THEN MapAddEntryListenerWithPredicateCodec ELSE MapAddEntryListenerCodec

Map_makeListenerDecoder(key, predicate) ==
    IF key THEN IF predicate THEN MapAddEntryListenerToKeyWithPredicateCodec ELSE MapAddEntryListenerToKeyCodec
    ELSE IF predicate THEN MapAddEntryListenerWithPredicateCodec ELSE MapAddEntryListenerCodec

ReplicatedMap_makeListenerRequest(key, predicate) ==
    IF key THEN IF predicate THEN ReplicatedMapAddEntryListenerToKeyWithPredicateCodec
                ELSE ReplicatedMapAddEntryListenerToKeyCodec
    ELSE IF predicate THEN ReplicatedMapAddEntryListenerWithPredicateCodec
         ELSE ReplicatedMapAddEntryListenerCodec

ReplicatedMap_makeListenerDecoder(key, predicate) ==
    IF key THEN IF predicate THEN ReplicatedMapAddEntryListenerToKeyWithPredicateCodec
                ELSE ReplicatedMapAddEntryListenerToKeyCodec
    ELSE IF predicate THEN ReplicatedMapAddEntryListenerWithPredicateCodec
         ELSE ReplicatedMapAddEntryListenerCodec

ListenerArgs(key, predicate) ==
    (IF key THEN <<Plain("key")>> ELSE <<>>) \o (IF predicate THEN <<Plain("predicate")>> ELSE <<>>)

\* A nil key or predicate is not refused: it is left out of the request.
Map_addEntryListener(key, predicate) ==
    Listening(Map_makeListenerRequest(key, predicate), Map_makeListenerDecoder(key, predicate),
              ListenerArgs(key, predicate), MapListenerFields)

ReplicatedMap_addEntryListener(key, predicate) ==
    Listening(ReplicatedMap_makeListenerRequest(key, predicate),
              ReplicatedMap_makeListenerDecoder(key, predicate),
              ListenerArgs(key, predicate), [localOnly |-> Given("smart")])

(***************************************************************************)
(* A MapListener is a set of handlers.  The flags of the request are made  *)
(* of the handlers that are not nil; an event calls the handler of its     *)
(* type, and calling a nil handler panics.  The events are the powers of   *)
(* two of events.go.                                                       *)
(***************************************************************************)
EntryEventType ==
    [EntryAdded |-> 1, EntryRemoved |-> 2, EntryUpdated |-> 4, EntryEvicted |-> 8, EntryExpired |-> 16,
     EntryAllEvicted |-> 32, EntryAllCleared |-> 64, EntryMerged |-> 128, EntryInvalidated |-> 256,
     EntryLoaded |-> 512]

Map_prepareFlagsOfMapListener(handlers) ==
    {EntryEventType[e] : e \in handlers \cap {"EntryAdded", "EntryEvicted", "EntryExpired", "EntryLoaded",
                                              "EntryMerged", "EntryRemoved", "EntryUpdated"}}
    \cup (IF "MapCleared" \in handlers THEN {EntryEventType["EntryAllCleared"]} ELSE {})
    \cup (IF "MapEvicted" \in handlers THEN {EntryEventType["EntryAllEvicted"]} ELSE {})

Map_mapListenerEventHandler(eventType) ==
    CASE eventType = 64 -> "MapCleared"
      [] eventType = 32 -> "MapEvicted"
      [] eventType \in {1, 2, 4, 8, 16, 128, 512} ->
             CHOOSE e \in DOMAIN EntryEventType : EntryEventType[e] = eventType
      [] OTHER -> "only logged"

(***************************************************************************)
(* The attributes of an index: an attribute is a name, with the prefix     *)
(* "this." or not, that is empty, ends with a dot or is sound.  The set    *)
(* of the sound ones is sent, in the order of Go's map.                    *)
(***************************************************************************)
Map_MaxIndexAttributes == 255
Map_Normalized(attribute) == [attribute EXCEPT !.this = FALSE]
Map_attributeSetAdds(attributes, n) ==
    /\ attributes[n].sound
    /\ \A m \in 1..n - 1 : Map_Normalized(attributes[m]) # Map_Normalized(attributes[n])
Map_validIndexConfig(ic) ==
    /\ \A n \in DOMAIN ic.attributes : Map_attributeSetAdds(ic.attributes, n)
    /\ Len(ic.attributes) \in 1..Map_MaxIndexAttributes
    /\ ic.bitmap => Len(ic.attributes) = 1

---------------------------------------------------------------------------
(***************************************************************************)
(* The exported methods that send a request, in the order of the source:   *)
(* a record holds the methods that stand together there and is named       *)
(* after the first of them.                                                *)
(***************************************************************************)
\* proxy_map.go
MapMethods_AddListener == [
    Map_AddListener |-> Map_addEntryListener(FALSE, FALSE),
    Map_AddListenerWithKey |-> Map_addEntryListener(TRUE, FALSE),
    Map_AddListenerWithPredicate |-> Map_addEntryListener(FALSE, TRUE),
    Map_AddListenerWithPredicateAndKey |-> Map_addEntryListener(TRUE, TRUE),
    Map_AddEntryListener |-> Map_addEntryListener(TRUE, TRUE),
    Map_AddIndex |-> Map_addIndex,
    Map_AddInterceptor |->
        Anywhere(MapAddInterceptorCodec, <<MayBeNil("interceptor")>>, NoFields),
    Map_Aggregate |-> Anywhere(MapAggregateCodec, <<Arg("aggregator")>>, NoFields),
    Map_AggregateWithPredicate |->
        Anywhere(MapAggregateWithPredicateCodec, <<Arg("aggregator"), Arg("predicate")>>,
            NoFields),
    Map_Clear |-> Map_clearFromRemote,
    Map_ContainsKey |-> Map_containsKeyFromRemote,
    Map_ContainsValue |-> Anywhere(MapContainsValueCodec, <<Arg("value")>>, NoFields),
    Map_Delete |-> Map_deleteFromRemote,
    Map_Evict |-> Map_evictFromRemote,
    Map_EvictAll |-> Map_evictAllFromRemote]
MapMethods_ExecuteOnEntries == [
    Map_ExecuteOnEntries |->
        Anywhere(MapExecuteOnAllKeysCodec, <<Arg("entryProcessor")>>, NoFields),
    Map_ExecuteOnKey |-> Map_executeOnKeyFromRemote,
    Map_ExecuteOnKeys |-> Map_executeOnKeysFromRemote,
    Map_ExecuteOnEntriesWithPredicate |->
        Anywhere(MapExecuteWithPredicateCodec, <<Arg("entryProcessor"), Arg("predicate")>>,
            NoFields),
    Map_Flush |-> Unread(Anywhere(MapFlushCodec, <<>>, NoFields)),
    Map_ForceUnlock |->
        Unread(OnKey(MapForceUnlockCodec, <<Arg("key")>>, [referenceId |-> Reference])),
    Map_Get |-> Map_getFromRemote]
MapMethods_GetAll == [
    Map_GetAll |-> SkipsEmpty(Map_getAll)]
MapMethods_GetEntrySet == [
    Map_GetEntrySet |-> Anywhere(MapEntrySetCodec, <<>>, NoFields),
    Map_GetEntrySetWithPredicate |->
        Anywhere(MapEntriesWithPredicateCodec, <<Arg("predicate")>>, NoFields),
    Map_GetEntryView |-> OnKey(MapGetEntryViewCodec, <<Arg("key")>>, [threadId |-> LockID]),
    Map_GetKeySet |-> Anywhere(MapKeySetCodec, <<>>, NoFields),
    Map_GetKeySetWithPredicate |->
        Anywhere(MapKeySetWithPredicateCodec, <<Arg("predicate")>>, NoFields),
    Map_GetValues |-> Anywhere(MapValuesCodec, <<>>, NoFields),
    Map_GetValuesWithPredicate |->
        Anywhere(MapValuesWithPredicateCodec, <<Arg("predicate")>>, NoFields),
    Map_IsEmpty |-> Anywhere(MapIsEmptyCodec, <<>>, NoFields),
    Map_IsLocked |-> OnKey(MapIsLockedCodec, <<Arg("key")>>, NoFields)]
MapMethods_LoadAllWithoutReplacing == [
    Map_LoadAllWithoutReplacing |-> Map_loadAll(Constant(FALSE)),
    Map_LoadAllReplacing |-> Map_loadAll(Constant(TRUE)),
    Map_Lock |-> Map_lock(Unset),
    Map_LockWithLease |-> Map_lock(Millis("leaseTime")),
    Map_Put |-> Map_putWithTTL(Unset),
    Map_PutWithTTL |-> Map_putWithTTL(Millis("ttl")),
    Map_PutWithMaxIdle |-> Map_putWithMaxIdle(Unset, Millis("maxIdle")),
    Map_PutWithTTLAndMaxIdle |-> Map_putWithMaxIdle(Millis("ttl"), Millis("maxIdle")),
    Map_PutAll |-> SkipsEmpty(Map_putAllFromRemote),
    Map_PutIfAbsent |-> Map_putIfAbsentWithTTL(Unset),
    Map_PutIfAbsentWithTTL |-> Map_putIfAbsentWithTTL(Millis("ttl")),
    Map_PutIfAbsentWithTTLAndMaxIdle |-> Map_putIfAbsentWithTTLAndMaxIdleFromRemote,
    Map_PutTransient |-> Map_putTransientWithTTL(Unset),
    Map_PutTransientWithTTL |-> Map_putTransientWithTTL(Millis("ttl")),
    Map_PutTransientWithMaxIdle |-> Map_putTransientWithTTLAndMaxIdle(Unset, Millis("maxIdle")),
    Map_PutTransientWithTTLAndMaxIdle |->
        Map_putTransientWithTTLAndMaxIdle(Millis("ttl"), Millis("maxIdle")),
    Map_Remove |-> Map_removeFromRemote,
    Map_RemoveAll |-> Map_removeAllFromRemote]
MapMethods_RemoveInterceptor == [
    Map_RemoveInterceptor |->
        Swallows(Anywhere(MapRemoveInterceptorCodec, <<Plain("id")>>, NoFields)),
    Map_RemoveIfSame |-> Map_removeIfSameFromRemote,
    Map_Replace |-> Map_replaceFromRemote,
    Map_ReplaceIfSame |-> Map_replaceIfSameFromRemote,
    Map_Set |-> Map_set(Unset),
    Map_SetTTL |-> Unread(OnKey(MapSetTtlCodec, <<Arg("key")>>, [ttl |-> Millis("ttl")])),
    Map_SetTTLAffected |-> OnKey(MapSetTtlCodec, <<Arg("key")>>, [ttl |-> Millis("ttl")]),
    Map_SetWithTTL |-> Map_set(Millis("ttl")),
    Map_SetWithTTLAndMaxIdle |-> Map_setWithTTLAndMaxIdleFromRemote,
    Map_Size |-> Anywhere(MapSizeCodec, <<>>, NoFields),
    Map_TryLock |-> Map_tryLock(Unset, Constant(0)),
    Map_TryLockWithLease |-> Map_tryLock(Millis("lease"), Constant(0)),
    Map_TryLockWithTimeout |-> Map_tryLock(Unset, Millis("timeout")),
    Map_TryLockWithLeaseAndTimeout |-> Map_tryLock(Millis("lease"), Millis("timeout")),
    Map_TryPut |-> Map_tryPut(Constant(0)),
    Map_TryPutWithTimeout |-> Map_tryPut(Millis("timeout")),
    Map_TryRemove |-> Map_tryRemove(Constant(0)),
    Map_TryRemoveWithTimeout |-> Map_tryRemove(Millis("timeout"))]
MapMethods_Unlock == [
    Map_Unlock |->
        Unread(OnKey(MapUnlockCodec, <<Arg("key")>>,
            [threadId |-> LockID, referenceId |-> Reference]))]
\* proxy_multi_map.go
MultiMapMethods_Clear == [
    MultiMap_Clear |-> Unread(Anywhere(MultiMapClearCodec, <<>>, NoFields)),
    MultiMap_ContainsKey |->
        OnKey(MultiMapContainsKeyCodec, <<Arg("key")>>, [threadId |-> LockID]),
    MultiMap_ContainsValue |-> Anywhere(MultiMapContainsValueCodec, <<Arg("value")>>, NoFields),
    MultiMap_ContainsEntry |->
        OnKey(MultiMapContainsEntryCodec, <<Arg("key"), Arg("value")>>, [threadId |-> LockID]),
    MultiMap_ValueCount |->
        OnKey(MultiMapValueCountCodec, <<Arg("key")>>, [threadId |-> LockID]),
    MultiMap_Delete |->
        Unread(OnKey(MultiMapDeleteCodec, <<Arg("key")>>, [threadId |-> LockID])),
    MultiMap_ForceUnlock |->
        Unread(OnKey(MultiMapForceUnlockCodec, <<Arg("key")>>, [referenceId |-> Reference])),
    MultiMap_Get |-> OnKey(MultiMapGetCodec, <<Arg("key")>>, [threadId |-> LockID]),
    MultiMap_GetEntrySet |-> Anywhere(MultiMapEntrySetCodec, <<>>, NoFields),
    MultiMap_GetKeySet |-> Anywhere(MultiMapKeySetCodec, <<>>, NoFields)]
MultiMapMethods_GetValues == [
    MultiMap_GetValues |-> Anywhere(MultiMapValuesCodec, <<>>, NoFields),
    MultiMap_IsLocked |-> OnKey(MultiMapIsLockedCodec, <<Arg("key")>>, NoFields),
    MultiMap_Lock |-> MultiMap_lock(Unset),
    MultiMap_LockWithLease |-> MultiMap_lock(Millis("leaseTime")),
    MultiMap_Put |-> MultiMap_put,
    MultiMap_PutAll |-> Unread(OnKey(MultiMapPutAllCodec, <<Args("entries")>>, NoFields)),
    MultiMap_Remove |-> OnKey(MultiMapRemoveCodec, <<Arg("key")>>, [threadId |-> LockID]),
    MultiMap_RemoveEntry |->
        OnKey(MultiMapRemoveEntryCodec, <<Arg("key"), Arg("value")>>, [threadId |-> LockID]),
    MultiMap_Size |-> Anywhere(MultiMapSizeCodec, <<>>, NoFields),
    MultiMap_TryLock |-> MultiMap_tryLock(Unset, Constant(0)),
    MultiMap_TryLockWithLease |-> MultiMap_tryLock(Millis("lease"), Constant(0)),
    MultiMap_TryLockWithTimeout |-> MultiMap_tryLock(Unset, Millis("timeout")),
    MultiMap_TryLockWithLeaseAndTimeout |-> MultiMap_tryLock(Millis("lease"), Millis("timeout"))]
MultiMapMethods_Unlock == [
    MultiMap_Unlock |->
        Unread(OnKey(MultiMapUnlockCodec, <<Arg("key")>>,
            [threadId |-> LockID, referenceId |-> Reference]))]
\* proxy_replicated_map.go
ReplicatedMapMethods_AddEntryListener == [
    ReplicatedMap_AddEntryListener |-> ReplicatedMap_addEntryListener(FALSE, FALSE),
    ReplicatedMap_AddEntryListenerToKey |-> ReplicatedMap_addEntryListener(TRUE, FALSE),
    ReplicatedMap_AddEntryListenerWithPredicate |-> ReplicatedMap_addEntryListener(FALSE, TRUE),
    ReplicatedMap_AddEntryListenerToKeyWithPredicate |->
        ReplicatedMap_addEntryListener(TRUE, TRUE),
    ReplicatedMap_Clear |-> Unread(Anywhere(ReplicatedMapClearCodec, <<>>, NoFields)),
    ReplicatedMap_ContainsKey |-> OnKey(ReplicatedMapContainsKeyCodec, <<Arg("key")>>, NoFields),
    ReplicatedMap_ContainsValue |->
        OnName(ReplicatedMapContainsValueCodec, <<Arg("value")>>, NoFields),
    ReplicatedMap_Get |-> OnKey(ReplicatedMapGetCodec, <<Arg("key")>>, NoFields),
    ReplicatedMap_GetEntrySet |-> OnName(ReplicatedMapEntrySetCodec, <<>>, NoFields),
    ReplicatedMap_GetKeySet |-> OnName(ReplicatedMapKeySetCodec, <<>>, NoFields),
    ReplicatedMap_GetValues |-> OnName(ReplicatedMapValuesCodec, <<>>, NoFields),
    ReplicatedMap_IsEmpty |-> OnName(ReplicatedMapIsEmptyCodec, <<>>, NoFields),
    ReplicatedMap_Put |->
        OnKey(ReplicatedMapPutCodec, <<Arg("key"), Arg("value")>>, [ttl |-> Constant(0)])]
ReplicatedMapMethods_PutAll == [
    ReplicatedMap_PutAll |->
        Unread(PerPartition(ReplicatedMapPutAllCodec, <<Args("entries")>>, NoFields)),
    ReplicatedMap_Remove |-> OnKey(ReplicatedMapRemoveCodec, <<Arg("key")>>, NoFields)]
ReplicatedMapMethods_Size == [
    ReplicatedMap_Size |-> OnName(ReplicatedMapSizeCodec, <<>>, NoFields)]

MapOperations ==
    MapMethods_AddListener @@ MapMethods_ExecuteOnEntries @@ MapMethods_GetAll @@
    MapMethods_GetEntrySet @@ MapMethods_LoadAllWithoutReplacing @@
    MapMethods_RemoveInterceptor @@ MapMethods_Unlock @@ MultiMapMethods_Clear @@
    MultiMapMethods_GetValues @@ MultiMapMethods_Unlock @@
    ReplicatedMapMethods_AddEntryListener @@ ReplicatedMapMethods_PutAll @@
    ReplicatedMapMethods_Size
=============================================================================
