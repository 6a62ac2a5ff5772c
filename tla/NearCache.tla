----------------------------- MODULE NearCache -----------------------------
(***************************************************************************)
(* The Near Cache of one map: the record store of internal/nearcache and   *)
(* the calls of nearcache_map.go, while no invalidation is lost (see       *)
(* NearCacheRepair for those).                                             *)
(*                                                                         *)
(* Readers fill the cache: they reserve a record, ask the member, and      *)
(* publish the answer if the reservation still stands.  Writers of this    *)
(* client change the member and drop the record.  The member sends an      *)
(* invalidation for every change, and the handler drops what others have   *)
(* changed.                                                                *)
(*                                                                         *)
(* A value is the number of the write that stored it and 0 for "absent".   *)
(* A record is an object: a Get keeps its pointer after recordsMu is free. *)
(* The reservation ID of a record is the record itself, IDs being unique.  *)
(***************************************************************************)
EXTENDS Integers, Sequences, FiniteSets

CONSTANTS
    Keys,          \* the keys of the map
    Objs,          \* record objects, as many as can be referred to at once
    Readers,       \* goroutines that call Get
    Writers,       \* goroutines that change the map through this client
    Handler,       \* the goroutine that handles the invalidations
    MaxSize,       \* EvictionConfig.Size
    EvictionNone,  \* EvictionPolicyNone: a full cache takes no new keys
    WithClear,     \* this client calls Clear or EvictAll
    WithCancel,    \* the context of a write may end before the member executes it
    MaxWrites      \* bound on the changes of the map

NoObj == "no record"
NoVal == -1
All   == "all keys"

ASSUME ThreadsAssumption ==
    Readers \cap Writers = {} /\ Handler \notin Readers \cup Writers
ASSUME NamesAssumption == NoObj \notin Objs /\ All \notin Keys
ASSUME ReadersAssumption == IsFiniteSet(Readers)
ASSUME BoundsAssumption == MaxSize \in Nat \ {0} /\ MaxWrites \in Nat \ {0}
ASSUME OptionsAssumption == {EvictionNone, WithClear, WithCancel} \subseteq BOOLEAN

Threads == Readers \cup Writers \cup {Handler}
Values  == 0..MaxWrites
Msgs    == [key : Keys \cup {All}, local : BOOLEAN]

VARIABLES
    \* the member
    value,    \* the value of every key
    writes,   \* number of changes so far
    inbox,    \* invalidations on their way to the client
    late,     \* keys whose cancelled write the member has yet to execute
    \* the record store
    records,  \* RecordStore.records
    obj,      \* the value of every record object
    \* the goroutines
    pc,
    key,      \* the key of the call, or of the invalidation
    rec,      \* the record a reader has looked up or reserved
    got,      \* the value a reader has read
    \* history
    unseen    \* a change of this client that no invalidation follows was executed

server  == <<value, writes, inbox, late>>
store   == <<records, obj>>
local   == <<key, rec, got>>
history == <<unseen>>
vars    == <<server, store, pc, local, history>>

ReaderPcs == {"idle", "check", "drop", "evict", "reserve", "remote", "publish", "failed"}
WriterPcs == {"idle", "sent", "inval", "clearSent"}

\* The types of the variables; two keys never share a record.
TypeOK ==
    /\ value \in [Keys -> Values] /\ writes \in Values
    /\ inbox \in Seq(Msgs) /\ late \subseteq Keys
    /\ records \in [Keys -> Objs \cup {NoObj}]
    /\ obj \in [Objs -> Values \cup {NoVal}]
    /\ pc \in [Threads -> ReaderPcs \cup WriterPcs]
    /\ key \in [Threads -> Keys \cup {All}]
    /\ rec \in [Readers -> Objs \cup {NoObj}]
    /\ got \in [Readers -> Values \cup {NoVal}]
    /\ unseen \in BOOLEAN
    /\ \A k1, k2 \in Keys : records[k1] = records[k2] => k1 = k2 \/ records[k1] = NoObj

\* The map holds the value 1 under every key and the cache is empty.
Init ==
    /\ value = [k \in Keys |-> 1] /\ writes = 1
    /\ inbox = <<>> /\ late = {}
    /\ records = [k \in Keys |-> NoObj]
    /\ obj = [o \in Objs |-> NoVal]
    /\ pc = [t \in Threads |-> "idle"]
    /\ key = [t \in Threads |-> All]
    /\ rec = [r \in Readers |-> NoObj]
    /\ got = [r \in Readers |-> NoVal]
    /\ unseen = FALSE

-----------------------------------------------------------------------------
(* The member (external) sends an invalidation for every change, with the  *)
(* UUID of the client that asked for it.                                   *)

\* The keys in K get a new value, or none.
Change(K, remove) ==
    /\ writes < MaxWrites
    /\ writes' = writes + 1
    /\ value' = [k \in Keys |-> IF k \notin K THEN value[k]
                               ELSE IF remove THEN 0 ELSE writes + 1]

Executed(k, own) ==
    /\ \/ k \in Keys /\ \E remove \in BOOLEAN : Change({k}, remove)
       \/ k = All /\ Change(Keys, TRUE)
    /\ inbox' = Append(inbox, [key |-> k, local |-> own])

OtherClient ==
    /\ \E k \in Keys \cup {All} : Executed(k, FALSE)
    /\ UNCHANGED <<late, store, pc, local, history>>

\* The write of this client whose caller has gone reaches the member.
LateWrite ==
    /\ \E k \in late : Executed(k, TRUE) /\ late' = late \ {k}
    /\ unseen' = TRUE
    /\ UNCHANGED <<store, pc, local>>

-----------------------------------------------------------------------------
(* RecordStore *)

Goto(t, l) == pc' = [pc EXCEPT ![t] = l]
Done(t) == Goto(t, "idle") /\ key' = [key EXCEPT ![t] = All]

Present == {k \in Keys : records[k] # NoObj}

\* RecordReadPermitted takes the place of the reservation ID with the first value.
IsPermitted(o) == obj[o] # NoVal
Permitted(k) == k \in Present /\ IsPermitted(records[k])

\* Invalidate, of a key, and Clear.
Invalidate(k) ==
    /\ records' = [j \in Keys |-> IF k \in {j, All} THEN NoObj ELSE records[j]]
    /\ UNCHANGED obj

-----------------------------------------------------------------------------
(* nearCacheMap.Get *)

\* RecordStore.Get finds the record and reads its value; recordsMu is free again.
Lookup(r, k) ==
    /\ pc[r] = "idle"
    /\ key' = [key EXCEPT ![r] = k]
    /\ rec' = [rec EXCEPT ![r] = records[k]]
    /\ IF records[k] = NoObj
       THEN Goto(r, "evict") /\ got' = [got EXCEPT ![r] = NoVal]
       ELSE Goto(r, "check") /\ got' = [got EXCEPT ![r] = obj[records[k]]]
    /\ UNCHANGED <<server, store, history>>

Forget(r) == rec' = [rec EXCEPT ![r] = NoObj] /\ got' = [got EXCEPT ![r] = NoVal]

\* The rest of RecordStore.Get for a record that was found: reserved, stale,
\* expired (time may have passed or not) or a hit.  The value is not read again.
Miss(r) ==
    /\ pc[r] = "check"
    /\ ~IsPermitted(rec[r]) /\ got[r] = NoVal
    /\ Goto(r, "evict") /\ Forget(r)
    /\ UNCHANGED <<server, store, key, history>>

StaleOrExpired(r) ==
    /\ pc[r] = "check"
    /\ IsPermitted(rec[r])
    /\ Goto(r, "drop") /\ Forget(r)
    /\ UNCHANGED <<server, store, key, history>>

Hit(r) ==
    /\ pc[r] = "check"
    /\ IsPermitted(rec[r]) \/ got[r] # NoVal
    /\ Done(r) /\ Forget(r)
    /\ UNCHANGED <<server, store, history>>

\* What the key holds by now is dropped, be it the record that was found or not.
DropStale(r) ==
    /\ pc[r] = "drop"
    /\ Invalidate(key[r])
    /\ Goto(r, "evict")
    /\ UNCHANGED <<server, local, history>>

\* Mutant: the cache is full only beyond its size.
EvictLate(r) ==
    /\ pc[r] = "evict" /\ ~EvictionNone
    /\ IF Cardinality(Present) > MaxSize
       THEN \E k \in Present : records' = [records EXCEPT ![k] = NoObj]
       ELSE UNCHANGED records
    /\ Goto(r, "reserve")
    /\ UNCHANGED <<server, obj, local, history>>

\* NearCache.TryReserveForUpdate: doEviction, or the test for a full cache.  The
\* record that the comparator prefers, reserved or not, is taken as any record.
Evict(r) ==
    /\ pc[r] = "evict" /\ ~EvictionNone
    /\ IF Cardinality(Present) >= MaxSize
       THEN \E k \in Present : records' = [records EXCEPT ![k] = NoObj]
       ELSE UNCHANGED records
    /\ Goto(r, "reserve")
    /\ UNCHANGED <<server, obj, local, history>>

TestFull(r) ==
    /\ pc[r] = "evict" /\ EvictionNone
    /\ Goto(r, IF Cardinality(Present) >= MaxSize /\ key[r] \notin Present
               THEN "remote" ELSE "reserve")
    /\ UNCHANGED <<server, store, local, history>>

\* reserveForReadUpdate: a record of somebody else is left alone.
NotReserved(r) ==
    /\ pc[r] = "reserve"
    /\ key[r] \in Present
    /\ Goto(r, "remote")
    /\ UNCHANGED <<server, store, local, history>>

\* Mutant: reservation IDs are not unique.
FreeAny(o) == o \in Objs

\* A new reservation ID.
Free(o) == (\A k \in Keys : records[k] # o) /\ (\A r \in Readers : rec[r] # o)

Reserve(r) ==
    /\ pc[r] = "reserve"
    /\ key[r] \notin Present
    /\ \E o \in Objs :
         /\ Free(o)
         /\ obj' = [obj EXCEPT ![o] = NoVal]
         /\ rec' = [rec EXCEPT ![r] = o]
         /\ records' = [records EXCEPT ![key[r]] = o]
    /\ Goto(r, "remote")
    /\ UNCHANGED <<server, key, got, history>>

\* Map.getFromRemote: the member answers, or the call fails.
RemoteGet(r) ==
    /\ pc[r] = "remote"
    /\ got' = [got EXCEPT ![r] = value[key[r]]]
    /\ Goto(r, "publish")
    /\ UNCHANGED <<server, store, key, rec, history>>

RemoteFails(r) ==
    /\ pc[r] = "remote"
    /\ Goto(r, "failed")
    /\ UNCHANGED <<server, store, local, history>>

InvalidateFailed(r) ==
    /\ pc[r] = "failed"
    /\ Invalidate(key[r])
    /\ Done(r) /\ Forget(r)
    /\ UNCHANGED <<server, history>>

\* TryPublishReserved: only into the record that this reader reserved.
CanPublish(r) == rec[r] # NoObj /\ records[key[r]] = rec[r]

\* Mutant: the reservation ID is not compared.
TryPublishAny(r) ==
    /\ pc[r] = "publish"
    /\ IF rec[r] # NoObj /\ records[key[r]] # NoObj
       THEN obj' = [obj EXCEPT ![records[key[r]]] = got[r]]
       ELSE UNCHANGED obj
    /\ Done(r) /\ Forget(r)
    /\ UNCHANGED <<server, records, history>>

TryPublishReserved(r) ==
    /\ pc[r] = "publish"
    /\ IF CanPublish(r)
       THEN obj' = [obj EXCEPT ![rec[r]] = got[r]]
       ELSE UNCHANGED obj
    /\ Done(r) /\ Forget(r)
    /\ UNCHANGED <<server, records, history>>

-----------------------------------------------------------------------------
(* Changes made through this client.  Put, Set, Remove, Replace, Evict, ... *)
(* of one key drop it when the remote call is over, however it ended;       *)
(* RemoveAll clears the cache then, Clear and EvictAll before.              *)

Write(w, k) ==
    /\ pc[w] = "idle"
    /\ key' = [key EXCEPT ![w] = k]
    /\ Goto(w, "sent")
    /\ UNCHANGED <<server, store, rec, got, history>>

WriteExecuted(w) ==
    /\ pc[w] = "sent"
    /\ Executed(key[w], TRUE)
    /\ Goto(w, "inval")
    /\ UNCHANGED <<late, store, local, history>>

\* The call fails before the member has executed it, and nothing comes of it, ...
WriteFails(w) ==
    /\ pc[w] = "sent"
    /\ Goto(w, "inval")
    /\ UNCHANGED <<server, store, local, history>>

\* ... or the caller's context ends and the request is still on its way.
WriteCancelled(w) ==
    /\ pc[w] = "sent" /\ WithCancel /\ key[w] # All
    /\ late' = late \cup {key[w]}
    /\ Goto(w, "inval")
    /\ UNCHANGED <<value, writes, inbox, store, local, history>>

\* nc.Invalidate or nc.Clear
WriteInvalidates(w) ==
    /\ pc[w] = "inval"
    /\ Invalidate(key[w])
    /\ Done(w)
    /\ UNCHANGED <<server, rec, got, history>>

\* Clear and EvictAll
Clear(w) ==
    /\ pc[w] = "idle" /\ WithClear
    /\ Invalidate(All)
    /\ Goto(w, "clearSent")
    /\ UNCHANGED <<server, local, history>>

ClearExecuted(w) ==
    /\ pc[w] = "clearSent"
    /\ Executed(All, TRUE)
    /\ unseen' = TRUE
    /\ Goto(w, "idle")
    /\ UNCHANGED <<late, store, local>>

ClearFails(w) ==
    /\ pc[w] = "clearSent"
    /\ Goto(w, "idle")
    /\ UNCHANGED <<server, store, local, history>>

\* The expiration task: any of the records that may be read has expired.
DoExpiration ==
    /\ \E k \in Keys : Permitted(k) /\ Invalidate(k)
    /\ UNCHANGED <<server, pc, local, history>>

-----------------------------------------------------------------------------
(* RepairingHandler.Handle: the client's own changes are not dropped again. *)

HandleOwn ==
    /\ pc[Handler] = "idle" /\ inbox # <<>>
    /\ Head(inbox).local
    /\ inbox' = Tail(inbox)
    /\ UNCHANGED <<value, writes, late, store, pc, local, history>>

Handle ==
    /\ pc[Handler] = "idle" /\ inbox # <<>>
    /\ ~Head(inbox).local
    /\ key' = [key EXCEPT ![Handler] = Head(inbox).key]
    /\ Goto(Handler, "inval")
    /\ inbox' = Tail(inbox)
    /\ UNCHANGED <<value, writes, late, store, rec, got, history>>

HandleInvalidates ==
    /\ pc[Handler] = "inval"
    /\ Invalidate(key[Handler])
    /\ Done(Handler)
    /\ UNCHANGED <<server, rec, got, history>>

-----------------------------------------------------------------------------
ReadStep(r) ==
    \/ Miss(r) \/ StaleOrExpired(r) \/ Hit(r) \/ DropStale(r)
    \/ Evict(r) \/ TestFull(r) \/ NotReserved(r) \/ Reserve(r)
    \/ RemoteGet(r) \/ RemoteFails(r) \/ InvalidateFailed(r) \/ TryPublishReserved(r)

WriteStep(w) ==
    \/ WriteExecuted(w) \/ WriteFails(w) \/ WriteCancelled(w)
    \/ WriteInvalidates(w) \/ ClearExecuted(w) \/ ClearFails(w)

Member == OtherClient \/ LateWrite

Next ==
    \/ \E r \in Readers : ReadStep(r) \/ \E k \in Keys : Lookup(r, k)
    \/ \E w \in Writers : WriteStep(w) \/ Clear(w) \/ \E k \in Keys \cup {All} : Write(w, k)
    \/ HandleOwn \/ Handle \/ HandleInvalidates \/ DoExpiration \/ Member

Spec == Init /\ [][Next]_vars

-----------------------------------------------------------------------------
(* Properties *)

\* Somebody is about to drop what the cache holds for k.
Pending(k) ==
    \/ \E n \in DOMAIN inbox : ~inbox[n].local /\ inbox[n].key \in {k, All}
    \/ \E t \in Writers \cup {Handler} : pc[t] = "inval" /\ key[t] \in {k, All}

\* A reservation keeps a reader from publishing what it read before a change:
\* unless invalidations were lost, a record that may be read holds the value of the
\* map, or an invalidation for it is on its way.
Fresh ==
    ~unseen =>
        \A k \in Keys : Permitted(k) /\ ~Pending(k) => obj[records[k]] = value[k]

\* Evicting and reserving are two steps: concurrent readers go beyond the size,
\* each by at most one record.
SizeBound == Cardinality(Present) <= MaxSize + Cardinality(Readers) - 1
=============================================================================
