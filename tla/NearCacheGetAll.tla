---------------------------- MODULE NearCacheGetAll ----------------------------
(***************************************************************************)
(* Map.GetAll with a Near Cache (nearCacheMap.GetAll): the cached entries  *)
(* are taken from the Near Cache, the missed keys are reserved, the        *)
(* members are asked, and what they return is published and put behind the *)
(* cached entries.  Keys are not serialized in the Near Cache; the data of *)
(* a key is the key itself, and the cached value of a key is the member's. *)
(***************************************************************************)
EXTENDS Integers, Sequences, SequencesExt, FiniteSets

CONSTANTS Key, MaxKeys

VARIABLES
    asked,        \* keys, the argument of GetAll
    onMembers,    \* keys the map has an entry for
    nearRecords,  \* per key: "none", "ready" or the reservation of this call
    at,           \* the step of GetAll
    entries,      \* the slice that is returned, NoEntry where nothing was put
    missKeys,
    keyDatas,
    resMap,       \* reservations: data to key
    pairs,        \* what the members returned
    answer        \* the entries GetAll returned

getAllVars == <<asked, onMembers, nearRecords, at, entries, missKeys, keyDatas, resMap, pairs, answer>>

NoEntry == "no entry"
NilData == "nil"

GetAllInit ==
    /\ asked \in {s \in SeqOf(Key, MaxKeys) : s # <<>> /\ IsInjective(s)}
    /\ onMembers \in SUBSET Key
    /\ nearRecords \in [Key -> {"none", "ready"}]
    /\ \A k \in Key : nearRecords[k] = "ready" => k \in onMembers
    /\ at = "start" /\ entries = <<>> /\ missKeys = <<>> /\ keyDatas = <<>>
    /\ resMap = [d \in {} |-> NoEntry] /\ pairs = <<>> /\ answer = <<>>

---------------------------------------------------------------------------
Cached(k) == nearRecords[k] = "ready"

\* the hits are put at the front of the slice
populateResultFromNearCache ==
    /\ at = "start"
    /\ LET hits == SelectSeq(asked, Cached)
       IN  /\ entries' = [n \in DOMAIN asked |-> IF n <= Len(hits) THEN hits[n] ELSE NoEntry]
           /\ missKeys' = SelectSeq(asked, LAMBDA k : ~Cached(k))
           /\ answer' = IF missKeys' = <<>> THEN entries' ELSE answer
           /\ at' = IF missKeys' = <<>> THEN "returned" ELSE "missed"
    /\ UNCHANGED <<asked, onMembers, nearRecords, keyDatas, resMap, pairs>>

\* keyDatas has the length of keys but is filled from missKeys; a key is
\* reserved with the data at its own index
getNearCacheReservations ==
    /\ at = "missed"
    /\ keyDatas' = [n \in DOMAIN asked |-> IF n <= Len(missKeys) THEN missKeys[n] ELSE NilData]
    /\ LET reserved == {n \in DOMAIN asked : nearRecords[asked[n]] = "none"}
       IN  /\ nearRecords' = [k \in Key |-> IF \E n \in reserved : asked[n] = k THEN "reserved" ELSE nearRecords[k]]
           /\ resMap' = [d \in {keyDatas'[n] : n \in reserved} |->
                            asked[CHOOSE n \in reserved : /\ keyDatas'[n] = d
                                                          /\ \A m \in reserved : keyDatas'[m] = d => m <= n]]
    /\ at' = "reserved"
    /\ UNCHANGED <<asked, onMembers, entries, missKeys, pairs, answer>>

\* the members are asked for all keys, not for those that were missed
getAllFromRemote ==
    /\ at = "reserved"
    /\ pairs' = SelectSeq(asked, LAMBDA k : k \in onMembers)
    /\ at' = "answered"
    /\ UNCHANGED <<asked, onMembers, nearRecords, entries, missKeys, keyDatas, resMap, answer>>

\* pairs without a reservation are skipped; the others are written from the
\* index len(entries) - len(pairs); the remaining reservations are released
populateResultFromRemote ==
    /\ at = "answered"
    /\ LET known == SelectSeq(pairs, LAMBDA k : k \in DOMAIN resMap)
           from  == Len(entries) - Len(pairs)
           done  == {known[n] : n \in DOMAIN known}
           left  == {resMap[d] : d \in DOMAIN resMap \ done}
       IN  /\ entries' = [n \in DOMAIN entries |-> IF n - from \in DOMAIN known THEN known[n - from] ELSE entries[n]]
           /\ answer' = SubSeq(entries', 1, from + Len(known))
           \* TryPublishReserved publishes a record that is reserved by the ID
           /\ nearRecords' = [k \in Key |->
                  IF k \in done /\ resMap[k] = k THEN "ready"
                  ELSE IF k \in left THEN "none" ELSE nearRecords[k]]
    /\ at' = "returned"
    /\ UNCHANGED <<asked, onMembers, missKeys, keyDatas, resMap, pairs>>

GetAllNext ==
    \/ populateResultFromNearCache \/ getNearCacheReservations
    \/ getAllFromRemote \/ populateResultFromRemote

GetAllSpec == GetAllInit /\ [][GetAllNext]_getAllVars

---------------------------------------------------------------------------
(***************************************************************************)
(* "GetAll returns the entries for the given keys" (proxy_map.go:853): the *)
(* answer has the entry of every given key the map has.                    *)
(***************************************************************************)
GetAllReturnsEntries ==
    at = "returned" => ToSet(asked) \cap onMembers \subseteq ToSet(answer)
=============================================================================
