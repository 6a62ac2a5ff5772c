-------------------------- MODULE NearCacheProofs --------------------------
(***************************************************************************)
(* Proofs about NearCache, for any number of keys, readers and writers,    *)
(* any size and either way of eviction.                                    *)
(*                                                                         *)
(* Fresh is not inductive: what a reader has read and not yet published    *)
(* must be fresh as well, if its reservation still stands, and for that a  *)
(* reservation must belong to one reader and to the key of that reader.    *)
(***************************************************************************)
EXTENDS NearCache, FiniteSetTheorems, TLAPS

\* The reader is between its reservation and the end of its call.
Owns(r) == pc[r] \in {"remote", "publish", "failed"} /\ rec[r] # NoObj

\* What the control states say of the variables that go with them.
Controlled ==
    /\ \A r \in Readers :
         /\ pc[r] \in ReaderPcs
         /\ pc[r] # "idle" => key[r] \in Keys
         /\ pc[r] \in {"idle", "drop", "evict", "reserve"} => rec[r] = NoObj
         /\ pc[r] = "check" => rec[r] # NoObj
    /\ \A t \in Writers \cup {Handler} : pc[t] \in WriterPcs

\* A reservation belongs to one reader, is for its key, and has no value.
Reserved ==
    /\ \A r, q \in Readers : Owns(r) /\ Owns(q) /\ rec[r] = rec[q] => r = q
    /\ \A r \in Readers, k \in Keys :
         Owns(r) /\ records[k] = rec[r] => k = key[r] /\ obj[rec[r]] = NoVal

\* What is in the record of k, or is about to be published in it, is fresh.
FreshKey(k) ==
    /\ Permitted(k) => obj[records[k]] = value[k]
    /\ \A r \in Readers :
         pc[r] = "publish" /\ key[r] = k /\ CanPublish(r) => got[r] = value[k]

AllFresh == ~unseen => \A k \in Keys : Pending(k) \/ FreshKey(k)

TypedInv == TypeOK /\ Controlled
IndInv == TypedInv /\ Reserved /\ AllFresh

-----------------------------------------------------------------------------
(* Type correctness *)

LEMMA InitTyped == Init => TypedInv
  <1> SUFFICES ASSUME Init PROVE TypedInv
    OBVIOUS
  <1>1. value \in [Keys -> Values] /\ writes \in Values /\ inbox \in Seq(Msgs)
    BY BoundsAssumption DEF Init, Values
  <1>2. TypeOK
    BY <1>1 DEF Init, TypeOK, ReaderPcs, Threads
  <1>3. Controlled
    BY DEF Init, Controlled, ReaderPcs, WriterPcs, Threads
  <1> QED  BY <1>2, <1>3 DEF TypedInv

\* Dropping records keeps their types and never gives two keys one record.
LEMMA InvalidateTyped ==
    ASSUME TypeOK, NEW k, Invalidate(k)
    PROVE  /\ records' \in [Keys -> Objs \cup {NoObj}]
           /\ obj' = obj
           /\ \A j \in Keys : records'[j] \in {records[j], NoObj}
           /\ \A j \in Keys : k \in {j, All} => records'[j] = NoObj
  BY DEF TypeOK, Invalidate

\* A change of the map on the member.
LEMMA ExecutedTyped ==
    ASSUME TypeOK, NEW k \in Keys \cup {All}, NEW own \in BOOLEAN, Executed(k, own)
    PROVE  /\ value' \in [Keys -> Values] /\ writes' \in Values
           /\ inbox' \in Seq(Msgs)
           /\ \A j \in Keys : value'[j] # value[j] => k \in {j, All}
           /\ Len(inbox') = Len(inbox) + 1
           /\ \A n \in 1..Len(inbox) : inbox'[n] = inbox[n]
           /\ inbox'[Len(inbox) + 1] = [key |-> k, local |-> own]
  <1>1. [key |-> k, local |-> own] \in Msgs
    BY DEF Msgs
  <1>2. /\ inbox' \in Seq(Msgs) /\ Len(inbox') = Len(inbox) + 1
        /\ \A n \in 1..Len(inbox) : inbox'[n] = inbox[n]
        /\ inbox'[Len(inbox) + 1] = [key |-> k, local |-> own]
    BY <1>1 DEF TypeOK, Executed
  <1>3. ASSUME NEW K \in SUBSET Keys, NEW remove \in BOOLEAN, Change(K, remove)
        PROVE  /\ value' \in [Keys -> Values] /\ writes' \in Values
               /\ \A j \in Keys : value'[j] # value[j] => j \in K
    BY <1>3, BoundsAssumption DEF TypeOK, Change, Values
  <1>4. CASE k \in Keys /\ \E remove \in BOOLEAN : Change({k}, remove)
    <2>1. PICK remove \in BOOLEAN : Change({k}, remove)
      BY <1>4
    <2>2. {k} \in SUBSET Keys
      BY <1>4
    <2> QED  BY <1>2, <1>3, <2>1, <2>2
  <1>5. CASE k = All /\ Change(Keys, TRUE)
    BY <1>2, <1>3, <1>5
  <1> QED  BY <1>4, <1>5 DEF Executed

\* The first invalidation leaves the inbox.
LEMMA TailTyped ==
    ASSUME TypeOK, inbox # <<>>, inbox' = Tail(inbox)
    PROVE  /\ inbox' \in Seq(Msgs) /\ Head(inbox) = inbox[1] /\ inbox[1] \in Msgs
           /\ Len(inbox') = Len(inbox) - 1 /\ Len(inbox) \in Nat \ {0}
           /\ \A n \in 1..(Len(inbox) - 1) : inbox'[n] = inbox[n + 1]
  BY DEF TypeOK

\* The states of the threads are apart.
LEMMA ThreadKinds ==
    /\ \A r \in Readers : r \in Threads /\ r # Handler /\ r \notin Writers
    /\ \A w \in Writers : w \in Threads /\ w # Handler /\ w \notin Readers
    /\ Handler \in Threads
  BY ThreadsAssumption DEF Threads

LEMMA NextTyped ==
    ASSUME TypedInv, [Next]_vars
    PROVE  TypedInv'
  <1> USE ThreadKinds DEF TypedInv
  <1>1. ASSUME NEW r \in Readers, NEW k \in Keys, Lookup(r, k)
        PROVE  TypedInv'
    BY <1>1 DEF Lookup, TypeOK, Controlled, Goto, server, store, history, ReaderPcs
  <1>2. ASSUME NEW r \in Readers, Miss(r) \/ StaleOrExpired(r) \/ Hit(r)
        PROVE  TypedInv'
    <2> USE <1>2 DEF Miss, StaleOrExpired, Hit, Forget, Done, Goto, server, store, history
    <2>2. TypeOK'  BY DEF TypeOK, ReaderPcs
    <2>3. Controlled'  BY DEF TypeOK, Controlled, ReaderPcs
    <2> QED  BY <2>2, <2>3
  <1>3. ASSUME NEW r \in Readers, DropStale(r)
        PROVE  TypedInv'
    <2> USE <1>3, InvalidateTyped DEF DropStale, Goto, server, local, history
    <2>1. TypeOK'  BY DEF TypeOK, ReaderPcs
    <2>2. Controlled'  BY DEF TypeOK, Controlled, ReaderPcs
    <2> QED  BY <2>1, <2>2
  <1>4. ASSUME NEW r \in Readers, Evict(r)
        PROVE  TypedInv'
    <2>1. \A k \in Keys : records'[k] \in {records[k], NoObj}
      BY <1>4 DEF Evict, TypeOK
    <2>2. records' \in [Keys -> Objs \cup {NoObj}]
      BY <1>4 DEF Evict, TypeOK
    <2> QED
      BY <1>4, <2>1, <2>2 DEF Evict, TypeOK, Controlled, Goto, server, local, history, ReaderPcs
  <1>5. ASSUME NEW r \in Readers, TestFull(r)
        PROVE  TypedInv'
    BY <1>5 DEF TestFull, TypeOK, Controlled, Goto, server, store, local, history, ReaderPcs
  <1>6. ASSUME NEW r \in Readers, NotReserved(r) \/ RemoteFails(r)
        PROVE  TypedInv'
    BY <1>6 DEF NotReserved, RemoteFails, TypeOK, Controlled, Goto, server, store, local,
                history, ReaderPcs
  <1>7. ASSUME NEW r \in Readers, Reserve(r)
        PROVE  TypedInv'
    <2>1. PICK o \in Objs : /\ Free(o)
                            /\ obj' = [obj EXCEPT ![o] = NoVal]
                            /\ rec' = [rec EXCEPT ![r] = o]
                            /\ records' = [records EXCEPT ![key[r]] = o]
      BY <1>7 DEF Reserve
    <2>2. key[r] \in Keys
      BY <1>7 DEF Reserve, Controlled
    <2>3. TypeOK'
      BY <1>7, <2>1, <2>2 DEF Reserve, Free, TypeOK, Goto, server, history, ReaderPcs
    <2>4. Controlled'
      BY <1>7, <2>1, <2>2, NamesAssumption DEF Reserve, TypeOK, Controlled, Goto, ReaderPcs
    <2> QED  BY <2>3, <2>4
  <1>8. ASSUME NEW r \in Readers, RemoteGet(r)
        PROVE  TypedInv'
    BY <1>8 DEF RemoteGet, TypeOK, Controlled, Goto, server, store, history, ReaderPcs
  <1>9. ASSUME NEW r \in Readers, InvalidateFailed(r)
        PROVE  TypedInv'
    <2> USE <1>9, InvalidateTyped DEF InvalidateFailed, Done, Forget, Goto, server, history
    <2>1. TypeOK'  BY DEF TypeOK, ReaderPcs
    <2>2. Controlled'  BY DEF TypeOK, Controlled, ReaderPcs
    <2> QED  BY <2>1, <2>2
  <1>10. ASSUME NEW r \in Readers, TryPublishReserved(r)
         PROVE  TypedInv'
    <2>1. CanPublish(r) => rec[r] \in Objs
      BY DEF CanPublish, TypeOK
    <2>2. obj' \in [Objs -> Values \cup {NoVal}]
      BY <1>10, <2>1 DEF TryPublishReserved, TypeOK
    <2> QED
      BY <1>10, <2>2 DEF TryPublishReserved, Done, Forget, TypeOK, Controlled, Goto, server,
                         history, ReaderPcs
  <1>11. ASSUME NEW w \in Writers, NEW k \in Keys \cup {All}, Write(w, k)
         PROVE  TypedInv'
    BY <1>11 DEF Write, TypeOK, Controlled, Goto, server, store, history, WriterPcs
  <1>12. ASSUME NEW w \in Writers, WriteExecuted(w)
         PROVE  TypedInv'
    <2>1. key[w] \in Keys \cup {All}
      BY DEF TypeOK
    <2>2. TypeOK'
      BY <1>12, <2>1, ExecutedTyped DEF WriteExecuted, TypeOK, Goto, store, local, history, WriterPcs
    <2>3. Controlled'
      BY <1>12 DEF WriteExecuted, TypeOK, Controlled, Goto, store, local, WriterPcs
    <2> QED  BY <2>2, <2>3
  <1>13. ASSUME NEW w \in Writers, WriteFails(w) \/ WriteCancelled(w) \/ ClearFails(w)
         PROVE  TypedInv'
    BY <1>13 DEF WriteFails, WriteCancelled, ClearFails, TypeOK, Controlled, Goto, server,
                 store, local, history, WriterPcs
  <1>14. ASSUME NEW w \in Writers, WriteInvalidates(w)
         PROVE  TypedInv'
    <2> USE <1>14, InvalidateTyped DEF WriteInvalidates, Done, Goto, server, history
    <2>1. TypeOK'  BY DEF TypeOK, ReaderPcs
    <2>2. Controlled'  BY DEF TypeOK, Controlled, WriterPcs
    <2> QED  BY <2>1, <2>2
  <1>15. ASSUME NEW w \in Writers, Clear(w)
         PROVE  TypedInv'
    <2> USE <1>15, InvalidateTyped DEF Clear, Goto, server, local, history
    <2>1. TypeOK'  BY DEF TypeOK, WriterPcs
    <2>2. Controlled'  BY DEF TypeOK, Controlled, WriterPcs
    <2> QED  BY <2>1, <2>2
  <1>16. ASSUME NEW w \in Writers, ClearExecuted(w)
         PROVE  TypedInv'
    <2>1. TypeOK'
      BY <1>16, ExecutedTyped DEF ClearExecuted, TypeOK, Goto, store, local, WriterPcs
    <2>2. Controlled'
      BY <1>16 DEF ClearExecuted, TypeOK, Controlled, Goto, store, local, WriterPcs
    <2> QED  BY <2>1, <2>2
  <1>17. ASSUME HandleOwn \/ Handle
         PROVE  TypedInv'
    <2>1. inbox' \in Seq(Msgs) /\ Head(inbox).key \in Keys \cup {All}
      BY <1>17, TailTyped DEF HandleOwn, Handle, Msgs
    <2> QED
      BY <1>17, <2>1 DEF HandleOwn, Handle, TypeOK, Controlled, Goto, store, local, history,
                         WriterPcs
  <1>18. ASSUME HandleInvalidates
         PROVE  TypedInv'
    <2> USE <1>18, InvalidateTyped DEF HandleInvalidates, Done, Goto, server, history
    <2>1. TypeOK'  BY DEF TypeOK, ReaderPcs
    <2>2. Controlled'  BY DEF TypeOK, Controlled, WriterPcs
    <2> QED  BY <2>1, <2>2
  <1>19. ASSUME DoExpiration
         PROVE  TypedInv'
    BY <1>19, InvalidateTyped DEF DoExpiration, TypeOK, Controlled, server, local, history
  <1>20. ASSUME OtherClient
         PROVE  TypedInv'
    BY <1>20, ExecutedTyped DEF OtherClient, TypeOK, Controlled, store, local, history
  <1>21. ASSUME LateWrite
         PROVE  TypedInv'
    <2>1. PICK k \in Keys : Executed(k, TRUE) /\ late' = late \ {k}
      BY <1>21 DEF LateWrite, TypeOK
    <2> QED
      BY <1>21, <2>1, ExecutedTyped DEF LateWrite, TypeOK, Controlled, store, local
  <1>22. CASE UNCHANGED vars
    BY <1>22 DEF vars, server, store, local, history, TypeOK, Controlled
  <1> QED
    BY <1>1, <1>2, <1>3, <1>4, <1>5, <1>6, <1>7, <1>8, <1>9, <1>10, <1>11, <1>12, <1>13,
       <1>14, <1>15, <1>16, <1>17, <1>18, <1>19, <1>20, <1>21, <1>22
    DEF Next, ReadStep, WriteStep, Member

\* The variables keep their types and no two keys ever share a record of the store.
THEOREM TypeCorrect == Spec => []TypeOK
  <1>1. TypedInv => TypeOK
    BY DEF TypedInv
  <1> QED  BY InitTyped, NextTyped, <1>1, PTL DEF Spec

-----------------------------------------------------------------------------
(* Reservations *)

\* Steps that change no record and reserve none, though they may drop some.
LEMMA ReservedKept ==
    ASSUME TypedInv, Reserved, obj' = obj,
           \A k \in Keys : records'[k] \in {records[k], NoObj},
           \A r \in Readers : Owns(r)' => Owns(r) /\ rec'[r] = rec[r] /\ key'[r] = key[r]
    PROVE  Reserved'
  <1>1. \A r \in Readers : Owns(r)' => rec'[r] # NoObj
    BY DEF Owns
  <1> QED  BY <1>1 DEF Reserved

LEMMA NextReserved ==
    ASSUME TypedInv, Reserved, [Next]_vars
    PROVE  Reserved'
  <1> USE ThreadKinds DEF TypedInv
  <1> DEFINE Keeps == \A r \in Readers : Owns(r)' => Owns(r) /\ rec'[r] = rec[r] /\ key'[r] = key[r]
             Drops == obj' = obj /\ \A k \in Keys : records'[k] \in {records[k], NoObj}
  <1>1. ASSUME NEW r \in Readers, NEW k \in Keys, Lookup(r, k)
        PROVE  Keeps /\ Drops
    BY <1>1 DEF Lookup, TypeOK, Owns, Goto, store
  <1>2. ASSUME NEW r \in Readers,
               \/ Miss(r) \/ StaleOrExpired(r) \/ Hit(r) \/ TestFull(r) \/ NotReserved(r)
               \/ RemoteGet(r) \/ RemoteFails(r)
        PROVE  Keeps /\ Drops
    BY <1>2 DEF Miss, StaleOrExpired, Hit, TestFull, NotReserved, RemoteGet, RemoteFails,
                Forget, Done, TypeOK, Controlled, Owns, Goto, store, local
  <1>3. ASSUME NEW r \in Readers, DropStale(r) \/ InvalidateFailed(r)
        PROVE  Keeps /\ Drops
    BY <1>3, InvalidateTyped DEF DropStale, InvalidateFailed, Forget, Done, TypeOK, Controlled,
                                 Owns, Goto, local
  <1>4. ASSUME NEW r \in Readers, Evict(r)
        PROVE  Keeps /\ Drops
    BY <1>4 DEF Evict, TypeOK, Controlled, Owns, Goto, local
  <1>5. ASSUME NEW r \in Readers, Reserve(r)
        PROVE  Reserved'
    <2>1. PICK o \in Objs : /\ Free(o)
                            /\ obj' = [obj EXCEPT ![o] = NoVal]
                            /\ rec' = [rec EXCEPT ![r] = o]
                            /\ records' = [records EXCEPT ![key[r]] = o]
      BY <1>5 DEF Reserve
    <2>2. key' = key /\ key[r] \in Keys
      BY <1>5 DEF Reserve, Controlled
    <2>3. \A q \in Readers : q # r => Owns(q)' = Owns(q) /\ rec'[q] = rec[q] /\ rec[q] # o
      BY <1>5, <2>1 DEF Reserve, TypeOK, Owns, Goto, Free
    <2>4. rec'[r] = o /\ obj'[o] = NoVal
      BY <2>1 DEF TypeOK
    <2>5. \A k \in Keys : records'[k] = IF k = key[r] THEN o ELSE records[k]
      BY <2>1 DEF TypeOK
    <2>6. \A k \in Keys : records[k] # o
      BY <2>1 DEF Free
    <2>7. \A p \in Objs : p # o => obj'[p] = obj[p]
      BY <2>1 DEF TypeOK
    <2>8. \A q \in Readers : Owns(q) => rec[q] \in Objs
      BY DEF Owns, TypeOK
    <2>9. ASSUME NEW p \in Readers, NEW q \in Readers, Owns(p)', Owns(q)', rec'[p] = rec'[q]
          PROVE  p = q
      BY <2>3, <2>4, <2>9 DEF Reserved
    <2>10. ASSUME NEW q \in Readers, NEW k \in Keys, Owns(q)', records'[k] = rec'[q]
           PROVE  k = key'[q] /\ obj'[rec'[q]] = NoVal
      BY <2>2, <2>3, <2>4, <2>5, <2>6, <2>7, <2>8, <2>10 DEF Reserved
    <2> QED  BY <2>9, <2>10 DEF Reserved
  <1>6. ASSUME NEW r \in Readers, TryPublishReserved(r)
        PROVE  Reserved'
    <2>1. \A q \in Readers : Owns(q)' => /\ Owns(q) /\ q # r
                                         /\ rec'[q] = rec[q] /\ key'[q] = key[q]
      BY <1>6 DEF TryPublishReserved, Done, Forget, TypeOK, Owns, Goto
    <2>2. CanPublish(r) => Owns(r)
      BY <1>6 DEF TryPublishReserved, CanPublish, Owns
    <2>3. \A q \in Readers : Owns(q)' => obj'[rec[q]] = obj[rec[q]]
      <3> SUFFICES ASSUME NEW q \in Readers, Owns(q)' PROVE obj'[rec[q]] = obj[rec[q]]
        OBVIOUS
      <3>1. CanPublish(r) => rec[q] # rec[r]
        BY <2>1, <2>2 DEF Reserved
      <3>2. rec[q] \in Objs
        BY <2>1 DEF Owns, TypeOK
      <3> QED  BY <1>6, <3>1, <3>2 DEF TryPublishReserved, TypeOK
    <2>4. records' = records
      BY <1>6 DEF TryPublishReserved
    <2> QED  BY <2>1, <2>3, <2>4 DEF Reserved
  <1>7. ASSUME NEW w \in Writers, NEW k \in Keys \cup {All}, Write(w, k)
        PROVE  Keeps /\ Drops
    BY <1>7 DEF Write, TypeOK, Owns, Goto, store
  <1>8. ASSUME NEW w \in Writers,
               WriteExecuted(w) \/ WriteFails(w) \/ WriteCancelled(w) \/ ClearExecuted(w) \/ ClearFails(w)
        PROVE  Keeps /\ Drops
    BY <1>8 DEF WriteExecuted, WriteFails, WriteCancelled, ClearExecuted, ClearFails, TypeOK,
                Owns, Goto, store, local
  <1>9. ASSUME NEW w \in Writers, WriteInvalidates(w) \/ Clear(w)
        PROVE  Keeps /\ Drops
    BY <1>9, InvalidateTyped DEF WriteInvalidates, Clear, Done, TypeOK, Owns, Goto, local
  <1>10. ASSUME HandleOwn \/ Handle \/ OtherClient \/ LateWrite
         PROVE  Keeps /\ Drops
    BY <1>10 DEF HandleOwn, Handle, OtherClient, LateWrite, TypeOK, Owns, Goto, store, local
  <1>11. ASSUME HandleInvalidates \/ DoExpiration
         PROVE  Keeps /\ Drops
    BY <1>11, InvalidateTyped DEF HandleInvalidates, DoExpiration, Done, TypeOK, Owns, Goto, local
  <1>12. CASE UNCHANGED vars
    BY <1>12 DEF vars, store, local, Reserved, Owns
  <1>13. Keeps /\ Drops => Reserved'
    BY ReservedKept
  <1> QED
    BY <1>1, <1>2, <1>3, <1>4, <1>5, <1>6, <1>7, <1>8, <1>9, <1>10, <1>11, <1>12, <1>13
    DEF Next, ReadStep, WriteStep, Member

-----------------------------------------------------------------------------
(* Freshness *)

\* An invalidation stays pending while nobody takes it.
LEMMA PendingKept ==
    ASSUME TypeOK, inbox' = inbox,
           \A t \in Writers \cup {Handler} :
               pc[t] = "inval" => pc'[t] = "inval" /\ key'[t] = key[t],
           NEW k \in Keys, Pending(k)
    PROVE  Pending(k)'
  BY DEF Pending

\* A key stays fresh while its value stays, no record gets a value, and what
\* readers are about to publish was fresh.
LEMMA FreshKept ==
    ASSUME TypedInv, NEW k \in Keys, FreshKey(k), value'[k] = value[k], obj' = obj,
           records'[k] \in {records[k], NoObj},
           \A r \in Readers : pc'[r] = "publish" /\ key'[r] = k =>
               \/ got'[r] = value[k]
               \/ pc[r] = "publish" /\ key[r] = k /\ rec'[r] = rec[r] /\ got'[r] = got[r]
    PROVE  FreshKey(k)'
  <1>1. Permitted(k)' => obj'[records'[k]] = value'[k]
    BY DEF FreshKey, Permitted, Present, IsPermitted
  <1>2. ASSUME NEW r \in Readers, pc'[r] = "publish", key'[r] = k, CanPublish(r)'
        PROVE  got'[r] = value'[k]
    BY <1>2 DEF FreshKey, CanPublish
  <1> QED  BY <1>1, <1>2 DEF FreshKey

\* A key whose record was dropped is fresh.
LEMMA DroppedIsFresh ==
    ASSUME NEW k \in Keys, records'[k] = NoObj
    PROVE  FreshKey(k)'
  BY DEF FreshKey, Permitted, Present, CanPublish

LEMMA NextFresh ==
    ASSUME IndInv, [Next]_vars
    PROVE  AllFresh'
  <1> USE ThreadKinds DEF IndInv, TypedInv
  <1> SUFFICES ASSUME ~unseen', NEW k \in Keys
               PROVE  Pending(k)' \/ FreshKey(k)'
    BY DEF AllFresh
  <1> DEFINE SamePending == /\ inbox' = inbox
                            /\ \A t \in Writers \cup {Handler} :
                                 pc[t] = "inval" => pc'[t] = "inval" /\ key'[t] = key[t]
             SameReads == \A r \in Readers : pc'[r] = "publish" /\ key'[r] = k =>
                            \/ got'[r] = value[k]
                            \/ pc[r] = "publish" /\ key[r] = k /\ rec'[r] = rec[r] /\ got'[r] = got[r]
             SameStore == obj' = obj /\ records'[k] \in {records[k], NoObj}
  <1>a. SamePending /\ value'[k] = value[k] /\ SameReads /\ SameStore /\ unseen' = unseen
          => Pending(k)' \/ FreshKey(k)'
    BY PendingKept, FreshKept DEF AllFresh
  <1>1. ASSUME NEW r \in Readers, NEW j \in Keys, Lookup(r, j)
        PROVE  Pending(k)' \/ FreshKey(k)'
    BY <1>a, <1>1 DEF Lookup, TypeOK, Goto, server, store, history
  <1>2. ASSUME NEW r \in Readers,
               \/ Miss(r) \/ StaleOrExpired(r) \/ Hit(r) \/ TestFull(r) \/ NotReserved(r)
               \/ RemoteGet(r) \/ RemoteFails(r)
        PROVE  Pending(k)' \/ FreshKey(k)'
    BY <1>a, <1>2 DEF Miss, StaleOrExpired, Hit, TestFull, NotReserved, RemoteGet, RemoteFails,
                      Forget, Done, TypeOK, Goto, server, store, local, history
  <1>3. ASSUME NEW r \in Readers, DropStale(r) \/ InvalidateFailed(r)
        PROVE  Pending(k)' \/ FreshKey(k)'
    BY <1>a, <1>3, InvalidateTyped DEF DropStale, InvalidateFailed, Forget, Done, TypeOK, Goto,
                                       server, local, history
  <1>4. ASSUME NEW r \in Readers, Evict(r)
        PROVE  Pending(k)' \/ FreshKey(k)'
    BY <1>a, <1>4 DEF Evict, TypeOK, Goto, server, local, history
  <1>5. ASSUME NEW r \in Readers, Reserve(r)
        PROVE  Pending(k)' \/ FreshKey(k)'
    <2>1. PICK o \in Objs : /\ Free(o)
                            /\ obj' = [obj EXCEPT ![o] = NoVal]
                            /\ rec' = [rec EXCEPT ![r] = o]
                            /\ records' = [records EXCEPT ![key[r]] = o]
      BY <1>5 DEF Reserve
    <2>2. SamePending /\ value' = value /\ unseen' = unseen /\ key' = key /\ got' = got
      BY <1>5 DEF Reserve, TypeOK, Goto, server, history
    <2>3. Pending(k) => Pending(k)'
      BY <2>2, PendingKept
    <2>4. ASSUME FreshKey(k)
          PROVE  FreshKey(k)'
      <3>1. ASSUME Permitted(k)'
            PROVE  Permitted(k) /\ obj'[records'[k]] = obj[records[k]]
        BY <2>1, <3>1 DEF Permitted, Present, IsPermitted, TypeOK, Free
      <3>2. ASSUME NEW q \in Readers, pc'[q] = "publish", key'[q] = k, CanPublish(q)'
            PROVE  pc[q] = "publish" /\ key[q] = k /\ CanPublish(q)
        <4>1. q # r /\ pc[q] = "publish" /\ key[q] = k
          BY <1>5, <2>2, <3>2 DEF Reserve, Goto, TypeOK
        <4>2. rec'[q] = rec[q] /\ rec[q] # o
          BY <2>1, <4>1 DEF TypeOK, Free
        <4>3. records'[k] = records[k]
          BY <2>1, <2>2, <3>2, <4>2 DEF CanPublish, TypeOK
        <4> QED  BY <2>2, <3>2, <4>1, <4>2, <4>3 DEF CanPublish
      <3> QED  BY <2>2, <2>4, <3>1, <3>2 DEF FreshKey
    <2> QED  BY <2>2, <2>3, <2>4 DEF AllFresh
  <1>6. ASSUME NEW r \in Readers, TryPublishReserved(r)
        PROVE  Pending(k)' \/ FreshKey(k)'
    <2>1. /\ SamePending /\ value' = value /\ unseen' = unseen /\ records' = records
      BY <1>6 DEF TryPublishReserved, Done, TypeOK, Goto, server, history
    <2>2. Pending(k) => Pending(k)'
      BY <2>1, PendingKept
    <2>3. ASSUME FreshKey(k)
          PROVE  FreshKey(k)'
      <3>1. ASSUME Permitted(k)'
            PROVE  obj'[records[k]] = value[k]
        <4>1. records[k] \in Objs
          BY <2>1, <3>1 DEF Permitted, Present, TypeOK
        <4>2. CASE CanPublish(r) /\ rec[r] = records[k]
          <5>1. key[r] = k
            BY <1>6, <4>2 DEF TryPublishReserved, CanPublish, Owns, Reserved
          <5>2. got[r] = value[k]
            BY <1>6, <2>3, <4>2, <5>1 DEF TryPublishReserved, FreshKey
          <5> QED  BY <1>6, <4>1, <4>2, <5>2 DEF TryPublishReserved, TypeOK
        <4>3. CASE ~(CanPublish(r) /\ rec[r] = records[k])
          <5>1. obj'[records[k]] = obj[records[k]]
            BY <1>6, <4>1, <4>3 DEF TryPublishReserved, TypeOK
          <5> QED  BY <2>1, <2>3, <3>1, <5>1 DEF FreshKey, Permitted, Present, IsPermitted
        <4> QED  BY <4>2, <4>3
      <3>2. ASSUME NEW q \in Readers, pc'[q] = "publish", key'[q] = k, CanPublish(q)'
            PROVE  pc[q] = "publish" /\ key[q] = k /\ CanPublish(q) /\ got'[q] = got[q]
        BY <1>6, <2>1, <3>2 DEF TryPublishReserved, Done, Forget, Goto, CanPublish, TypeOK
      <3> QED  BY <2>1, <2>3, <3>1, <3>2 DEF FreshKey
    <2> QED  BY <2>1, <2>2, <2>3 DEF AllFresh
  <1>7. ASSUME NEW w \in Writers, NEW j \in Keys \cup {All}, Write(w, j)
        PROVE  Pending(k)' \/ FreshKey(k)'
    BY <1>a, <1>7 DEF Write, TypeOK, Goto, server, store, history
  <1>8. ASSUME NEW w \in Writers, WriteFails(w) \/ WriteCancelled(w) \/ ClearFails(w)
        PROVE  Pending(k)' \/ FreshKey(k)'
    BY <1>a, <1>8 DEF WriteFails, WriteCancelled, ClearFails, TypeOK, Goto, server, store, local,
                      history
  <1>9. ASSUME NEW w \in Writers, Clear(w)
        PROVE  Pending(k)' \/ FreshKey(k)'
    BY <1>a, <1>9, InvalidateTyped DEF Clear, TypeOK, Goto, server, local, history
  <1>10. ASSUME DoExpiration
         PROVE  Pending(k)' \/ FreshKey(k)'
    BY <1>a, <1>10, InvalidateTyped DEF DoExpiration, server, local, history
  <1>11. CASE UNCHANGED vars
    BY <1>a, <1>11 DEF vars, server, store, local, history
  <1>b. DOMAIN inbox = 1..Len(inbox) /\ DOMAIN inbox' = 1..Len(inbox') /\ Len(inbox) \in Nat
    BY NextTyped DEF TypeOK
  <1>12. ASSUME NEW w \in Writers, WriteExecuted(w)
         PROVE  Pending(k)' \/ FreshKey(k)'
    <2>1. key[w] \in Keys \cup {All} /\ Executed(key[w], TRUE)
      BY <1>12 DEF WriteExecuted, TypeOK
    <2>2. pc'[w] = "inval" /\ key' = key /\ unseen' = unseen /\ SameStore
      BY <1>12 DEF WriteExecuted, Goto, TypeOK, store, local, history
    <2>3. CASE key[w] \in {k, All}
      BY <2>2, <2>3 DEF Pending
    <2>4. CASE key[w] \notin {k, All}
      <3>1. value'[k] = value[k]
        BY <2>1, <2>4, ExecutedTyped
      <3>2. SameReads
        BY <1>12 DEF WriteExecuted, Goto, TypeOK, local
      <3>3. \A t \in Writers \cup {Handler} : pc[t] = "inval" => pc'[t] = "inval"
        BY <1>12 DEF WriteExecuted, Goto, TypeOK
      <3>4. \A n \in DOMAIN inbox : n \in DOMAIN inbox' /\ inbox'[n] = inbox[n]
        <4>1. /\ Len(inbox') = Len(inbox) + 1
              /\ \A n \in 1..Len(inbox) : inbox'[n] = inbox[n]
          BY <2>1, ExecutedTyped
        <4> QED  BY <1>b, <4>1
      <3>5. Pending(k) => Pending(k)'
        BY <2>2, <3>3, <3>4 DEF Pending
      <3>6. FreshKey(k) => FreshKey(k)'
        BY <2>2, <3>1, <3>2, FreshKept
      <3> QED  BY <2>2, <3>5, <3>6 DEF AllFresh
    <2> QED  BY <2>3, <2>4
  <1>13. ASSUME NEW t \in Writers \cup {Handler}, pc[t] = "inval", Invalidate(key[t]), Done(t),
                UNCHANGED <<server, rec, got, history>>
         PROVE  Pending(k)' \/ FreshKey(k)'
    <2>1. CASE key[t] \in {k, All}
      BY <1>13, <2>1, InvalidateTyped, DroppedIsFresh
    <2>2. CASE key[t] \notin {k, All}
      <3>1. \A u \in Writers \cup {Handler} : u # t => pc'[u] = pc[u] /\ key'[u] = key[u]
        BY <1>13 DEF Done, Goto, TypeOK
      <3>2. Pending(k) => Pending(k)'
        BY <1>13, <2>2, <3>1 DEF Pending, server
      <3>3. SameReads /\ SameStore /\ value' = value /\ unseen' = unseen
        BY <1>13, InvalidateTyped DEF Done, Goto, TypeOK, server, history
      <3>4. FreshKey(k) => FreshKey(k)'
        BY <3>3, FreshKept
      <3> QED  BY <3>2, <3>3, <3>4 DEF AllFresh
    <2> QED  BY <2>1, <2>2
  <1>14. ASSUME HandleOwn \/ Handle
         PROVE  Pending(k)' \/ FreshKey(k)'
    <2>1. /\ Head(inbox) = inbox[1] /\ Len(inbox') = Len(inbox) - 1
          /\ \A n \in 1..(Len(inbox) - 1) : inbox'[n] = inbox[n + 1]
      BY <1>14, TailTyped DEF HandleOwn, Handle
    <2>2. /\ inbox[1].local \/ (pc'[Handler] = "inval" /\ key'[Handler] = inbox[1].key)
          /\ \A t \in Writers \cup {Handler} :
               pc[t] = "inval" => pc'[t] = "inval" /\ key'[t] = key[t]
      BY <1>14, <2>1 DEF HandleOwn, Handle, Goto, TypeOK, local
    <2>3. ASSUME NEW n \in DOMAIN inbox, ~inbox[n].local, inbox[n].key \in {k, All}
          PROVE  Pending(k)'
      <3>1. CASE n = 1
        BY <2>2, <2>3, <3>1 DEF Pending
      <3>2. CASE n # 1
        <4>1. n - 1 \in DOMAIN inbox' /\ inbox'[n - 1] = inbox[n]
          BY <1>b, <2>1, <2>3, <3>2
        <4> QED  BY <2>3, <4>1 DEF Pending
      <3> QED  BY <3>1, <3>2
    <2>4. Pending(k) => Pending(k)'
      BY <2>2, <2>3 DEF Pending
    <2>5. SameReads /\ SameStore /\ value' = value /\ unseen' = unseen
      BY <1>14 DEF HandleOwn, Handle, Goto, TypeOK, store, local, history
    <2>6. FreshKey(k) => FreshKey(k)'
      BY <2>5, FreshKept
    <2> QED  BY <2>4, <2>5, <2>6 DEF AllFresh
  <1>15. ASSUME OtherClient
         PROVE  Pending(k)' \/ FreshKey(k)'
    <2>1. PICK j \in Keys \cup {All} : Executed(j, FALSE)
      BY <1>15 DEF OtherClient
    <2>2. UNCHANGED <<store, pc, local, unseen>>
      BY <1>15 DEF OtherClient, history
    <2>3. CASE j \in {k, All}
      <3>1. Len(inbox) + 1 \in DOMAIN inbox'
        <4>1. /\ Len(inbox') = Len(inbox) + 1
              /\ \A n \in 1..Len(inbox) : inbox'[n] = inbox[n]
          BY <2>1, ExecutedTyped
        <4> QED  BY <1>b, <4>1
      <3>2. inbox'[Len(inbox) + 1] = [key |-> j, local |-> FALSE]
        BY <2>1, ExecutedTyped
      <3> QED  BY <2>3, <3>1, <3>2 DEF Pending
    <2>4. CASE j \notin {k, All}
      <3>1. value'[k] = value[k]
        BY <2>1, <2>4, ExecutedTyped
      <3>2. \A n \in DOMAIN inbox : n \in DOMAIN inbox' /\ inbox'[n] = inbox[n]
        <4>1. /\ Len(inbox') = Len(inbox) + 1
              /\ \A n \in 1..Len(inbox) : inbox'[n] = inbox[n]
          BY <2>1, ExecutedTyped
        <4> QED  BY <1>b, <4>1
      <3>3. Pending(k) => Pending(k)'
        BY <2>2, <3>2 DEF Pending, local
      <3>4. FreshKey(k) => FreshKey(k)'
        BY <2>2, <3>1, FreshKept DEF store, local
      <3> QED  BY <2>2, <3>3, <3>4 DEF AllFresh
    <2> QED  BY <2>3, <2>4
  <1>16. ASSUME LateWrite \/ \E w \in Writers : ClearExecuted(w)
         PROVE  FALSE
    BY <1>16 DEF LateWrite, ClearExecuted
  <1>17. ASSUME HandleInvalidates \/ \E w \in Writers : WriteInvalidates(w)
         PROVE  Pending(k)' \/ FreshKey(k)'
    BY <1>13, <1>17 DEF HandleInvalidates, WriteInvalidates
  <1> QED
    BY <1>1, <1>2, <1>3, <1>4, <1>5, <1>6, <1>7, <1>8, <1>9, <1>10, <1>11, <1>12, <1>14, <1>15,
       <1>16, <1>17
    DEF Next, ReadStep, WriteStep, Member

LEMMA InitIndInv == Init => IndInv
  BY InitTyped DEF Init, IndInv, TypedInv, TypeOK, Reserved, Owns, AllFresh, FreshKey, Permitted,
                   Present, CanPublish

\* While no invalidation of another client's change is lost and no change of this
\* client escapes its own invalidation, a record that Get may return holds the
\* value of the map or is about to be dropped.
THEOREM ReadsAreFresh == Spec => []Fresh
  <1>1. IndInv /\ [Next]_vars => IndInv'
    BY NextTyped, NextReserved, NextFresh DEF IndInv
  <1>2. IndInv => Fresh
    BY DEF IndInv, AllFresh, FreshKey, Fresh
  <1> QED  BY InitIndInv, <1>1, <1>2, PTL DEF Spec

-----------------------------------------------------------------------------
(* The size of the cache.  SizeBound is not inductive: the readers that have *)
(* passed the test for a full cache and are about to reserve a record count  *)
(* as well.  With eviction every one of them has made room for itself or has *)
(* found some; without, a reader may also pass because its key is there, and *)
(* the key may be dropped before it is reserved again.                       *)

Reserving == {r \in Readers : pc[r] = "reserve"}

\* The keys that have a record or are about to have one.
Claimed == Present \cup {key[r] : r \in Reserving}

Limit == MaxSize + Cardinality(Readers) - 1

Room ==
    /\ IsFiniteSet(Present)
    /\ IF EvictionNone THEN Cardinality(Claimed) <= Limit
                       ELSE Cardinality(Present) + Cardinality(Reserving) <= Limit

SizeInv == TypedInv /\ Room

LEMMA ReservingFinite ==
    /\ IsFiniteSet(Reserving) /\ Cardinality(Reserving) \in Nat
    /\ Cardinality(Reserving) <= Cardinality(Readers)
    /\ Cardinality(Readers) \in Nat /\ Limit \in Nat
    /\ IsFiniteSet({key[r] : r \in Reserving})
    /\ Cardinality({key[r] : r \in Reserving}) <= Cardinality(Reserving)
    /\ Cardinality({key[r] : r \in Reserving}) \in Nat
  <1>1. IsFiniteSet(Reserving) /\ Cardinality(Reserving) <= Cardinality(Readers)
    <2>1. Reserving \in SUBSET Readers
      BY DEF Reserving
    <2> QED  BY <2>1, FS_Subset, ReadersAssumption
  <1>2. Cardinality(Reserving) \in Nat /\ Cardinality(Readers) \in Nat
    BY <1>1, FS_CardinalityType, ReadersAssumption
  <1>3. /\ IsFiniteSet({key[r] : r \in Reserving})
        /\ Cardinality({key[r] : r \in Reserving}) <= Cardinality(Reserving)
    <2> DEFINE f == [r \in Reserving |-> key[r]]
               K == {key[r] : r \in Reserving}
    <2>1. f \in Surjection(Reserving, K)
      BY DEF Surjection
    <2> QED  BY <1>1, <2>1, FS_Surjection
  <1>4. Cardinality({key[r] : r \in Reserving}) \in Nat
    BY <1>3, FS_CardinalityType
  <1> QED  BY <1>1, <1>2, <1>3, <1>4, BoundsAssumption DEF Limit

\* A subset of a finite set is finite and no larger.
LEMMA Smaller ==
    \A S, T : IsFiniteSet(S) /\ T \subseteq S =>
                /\ IsFiniteSet(T) /\ Cardinality(T) <= Cardinality(S)
                /\ Cardinality(T) \in Nat /\ Cardinality(S) \in Nat
  BY FS_Subset, FS_CardinalityType

LEMMA ClaimedFinite ==
    ASSUME IsFiniteSet(Present)
    PROVE  /\ IsFiniteSet(Claimed) /\ Cardinality(Claimed) \in Nat
           /\ Cardinality(Present) \in Nat
           /\ Cardinality(Present) <= Cardinality(Claimed)
           /\ Cardinality(Claimed) <= Cardinality(Present) + Cardinality(Reserving)
  <1> DEFINE K == {key[r] : r \in Reserving}
  <1>1. /\ IsFiniteSet(Present \cup K)
        /\ Cardinality(Present \cup K)
             = Cardinality(Present) + Cardinality(K) - Cardinality(Present \cap K)
    BY ReservingFinite, FS_Union
  <1>2. Cardinality(Present \cap K) \in Nat /\ Cardinality(Present) \in Nat
    <2>1. Present \cap K \subseteq Present
      OBVIOUS
    <2> QED  BY <2>1, Smaller
  <1>3. Cardinality(Present \cup K) \in Nat
    BY <1>1, FS_CardinalityType
  <1>4. Cardinality(Present) <= Cardinality(Present \cup K)
    BY <1>1, Smaller
  <1> QED  BY <1>1, <1>2, <1>3, <1>4, ReservingFinite DEF Claimed

\* Nobody is added: neither a record nor a reader about to reserve one.
LEMMA RoomKept ==
    ASSUME Room,
           \A k \in Keys : records[k] = NoObj => records'[k] = NoObj,
           \A r \in Readers : pc'[r] = "reserve" => pc[r] = "reserve" /\ key'[r] = key[r]
    PROVE  Room'
  <1>1. Present' \subseteq Present
    BY DEF Present
  <1>2. Reserving' \subseteq Reserving
    BY DEF Reserving
  <1>3. Claimed' \subseteq Claimed
    BY <1>1 DEF Claimed, Reserving
  <1>4. IsFiniteSet(Present') /\ Cardinality(Present') <= Cardinality(Present)
        /\ Cardinality(Present') \in Nat /\ Cardinality(Present) \in Nat
    BY <1>1, Smaller DEF Room
  <1>5. Cardinality(Reserving') <= Cardinality(Reserving)
        /\ Cardinality(Reserving') \in Nat /\ Cardinality(Reserving) \in Nat
    BY <1>2, Smaller, ReservingFinite
  <1>6. Cardinality(Claimed') <= Cardinality(Claimed)
        /\ Cardinality(Claimed') \in Nat /\ Cardinality(Claimed) \in Nat
    BY <1>3, Smaller, ClaimedFinite DEF Room
  <1>7. Limit' = Limit /\ Limit \in Nat
    BY ReservingFinite DEF Limit
  <1> QED  BY <1>4, <1>5, <1>6, <1>7 DEF Room

LEMMA EvictRoom ==
    ASSUME TypedInv, Room, NEW r \in Readers, Evict(r)
    PROVE  Room'
  <1>1. ~EvictionNone /\ Limit' = Limit /\ Limit \in Nat
    BY ReservingFinite DEF Evict, Limit
  <1>2. Reserving' = Reserving \cup {r} /\ r \notin Reserving
    BY ThreadKinds DEF Evict, Reserving, Goto, TypedInv, TypeOK
  <1>3. Cardinality(Reserving') = Cardinality(Reserving) + 1
    BY <1>2, ReservingFinite, FS_AddElement
  <1>4. Cardinality(Reserving') <= Cardinality(Readers)
    <2>1. Reserving' \in SUBSET Readers
      BY DEF Reserving
    <2> QED  BY <2>1, FS_Subset, ReadersAssumption
  <1>5. Cardinality(Present) \in Nat
    BY FS_CardinalityType DEF Room
  <1>6. CASE Cardinality(Present) >= MaxSize
    <2>1. PICK k \in Present : records' = [records EXCEPT ![k] = NoObj]
      BY <1>6 DEF Evict
    <2>2. Present' = Present \ {k}
      BY <2>1 DEF Present, TypedInv, TypeOK
    <2>3. IsFiniteSet(Present') /\ Cardinality(Present') = Cardinality(Present) - 1
      BY <2>1, <2>2, FS_RemoveElement DEF Room
    <2> QED  BY <1>1, <1>3, <1>5, <2>3, ReservingFinite DEF Room
  <1>7. CASE ~(Cardinality(Present) >= MaxSize)
    <2>1. Present' = Present
      BY <1>7 DEF Evict, Present
    <2>2. IsFiniteSet(Present') /\ Cardinality(Present') <= MaxSize - 1
      BY <1>5, <1>7, <2>1, BoundsAssumption DEF Room
    <2>3. Cardinality(Present') + Cardinality(Reserving') <= Limit
      BY <1>3, <1>4, <1>5, <2>1, <2>2, ReservingFinite, BoundsAssumption DEF Limit
    <2> QED  BY <1>1, <2>2, <2>3 DEF Room
  <1> QED  BY <1>6, <1>7

LEMMA TestFullRoom ==
    ASSUME TypedInv, Room, NEW r \in Readers, TestFull(r)
    PROVE  Room'
  <1>1. EvictionNone /\ Present' = Present /\ key' = key
    BY DEF TestFull, store, local, Present
  <1>2. CASE Cardinality(Present) >= MaxSize /\ key[r] \notin Present
    <2>1. \A q \in Readers : pc'[q] = "reserve" => pc[q] = "reserve"
      BY <1>2 DEF TestFull, Goto, TypedInv, TypeOK
    <2> QED  BY <1>1, <2>1, RoomKept DEF TestFull, store
  <1>3. CASE ~(Cardinality(Present) >= MaxSize /\ key[r] \notin Present)
    <2>1. Reserving' = Reserving \cup {r}
      BY <1>3, ThreadKinds DEF TestFull, Reserving, Goto, TypedInv, TypeOK
    <2>2. Claimed' = Claimed \cup {key[r]}
      BY <1>1, <2>1 DEF Claimed
    <2>3. CASE key[r] \in Present
      <3>1. Claimed' = Claimed
        BY <2>2, <2>3 DEF Claimed
      <3> QED  BY <1>1, <3>1 DEF Room, Limit
    <2>4. CASE Cardinality(Present) < MaxSize
      <3>1. /\ IsFiniteSet(Present) /\ Cardinality(Present) \in Nat
        BY ClaimedFinite DEF Room
      <3>2. (/\ IsFiniteSet(Reserving) /\ Cardinality(Reserving) \in Nat
             /\ Cardinality(Reserving) <= Cardinality(Readers))'
        BY ReservingFinite, PTL
      <3>3. Cardinality(Claimed') <= Cardinality(Present') + Cardinality(Reserving')
            /\ Cardinality(Claimed') \in Nat
        <4>1. (IsFiniteSet(Present) =>
                 /\ Cardinality(Claimed) \in Nat
                 /\ Cardinality(Claimed) <= Cardinality(Present) + Cardinality(Reserving))'
          BY ClaimedFinite, PTL
        <4> QED  BY <1>1, <3>1, <4>1
      <3>4. Cardinality(Claimed') <= Limit
        BY <1>1, <2>4, <3>1, <3>2, <3>3, ReservingFinite, BoundsAssumption DEF Limit
      <3> QED  BY <1>1, <3>1, <3>4 DEF Room, Limit
    <2>5. Cardinality(Present) \in Nat
      BY ClaimedFinite DEF Room
    <2> QED  BY <1>3, <2>3, <2>4, <2>5, BoundsAssumption
  <1> QED  BY <1>2, <1>3

LEMMA ReserveRoom ==
    ASSUME TypedInv, Room, NEW r \in Readers, Reserve(r)
    PROVE  Room'
  <1>1. PICK o \in Objs : records' = [records EXCEPT ![key[r]] = o]
    BY DEF Reserve
  <1>2. key[r] \in Keys /\ key[r] \notin Present /\ r \in Reserving /\ key' = key
    BY DEF Reserve, TypedInv, Controlled, Reserving
  <1>3. Present' = Present \cup {key[r]}
    BY <1>1, <1>2, NamesAssumption DEF Present, TypedInv, TypeOK
  <1>4. Reserving' = Reserving \ {r}
    BY ThreadKinds DEF Reserve, Goto, Reserving, TypedInv, TypeOK
  <1>5. IsFiniteSet(Present') /\ Cardinality(Present') = Cardinality(Present) + 1
    BY <1>2, <1>3, FS_AddElement DEF Room
  <1>6. Cardinality(Reserving') = Cardinality(Reserving) - 1
    BY <1>2, <1>4, ReservingFinite, FS_RemoveElement
  <1>7. Claimed' = Claimed
    BY <1>2, <1>3, <1>4 DEF Claimed
  <1>8. Cardinality(Present) \in Nat /\ Cardinality(Reserving) \in Nat /\ Limit \in Nat
    BY ClaimedFinite, ReservingFinite DEF Room
  <1> QED  BY <1>5, <1>6, <1>7, <1>8 DEF Room, Limit

LEMMA NextRoom ==
    ASSUME TypedInv, Room, [Next]_vars
    PROVE  Room'
  <1> USE ThreadKinds DEF TypedInv
  <1>1. ASSUME NEW r \in Readers, NEW k \in Keys, Lookup(r, k)
        PROVE  Room'
    BY <1>1, RoomKept DEF Lookup, Goto, TypeOK, store
  <1>2. ASSUME NEW r \in Readers,
               Miss(r) \/ StaleOrExpired(r) \/ Hit(r) \/ NotReserved(r) \/ RemoteGet(r)
               \/ RemoteFails(r) \/ TryPublishReserved(r)
        PROVE  Room'
    <2>1. /\ records' = records
          /\ \E l \in ReaderPcs \ {"reserve"} : pc' = [pc EXCEPT ![r] = l]
          /\ \A q \in Readers \ {r} : key'[q] = key[q]
      BY <1>2 DEF Miss, StaleOrExpired, Hit, NotReserved, RemoteGet, RemoteFails,
                  TryPublishReserved, Done, Goto, TypeOK, store, local, ReaderPcs
    <2> QED  BY <2>1, RoomKept DEF TypeOK
  <1>3. ASSUME NEW r \in Readers, DropStale(r) \/ InvalidateFailed(r)
        PROVE  Room'
    <2>1. \A k \in Keys : records'[k] \in {records[k], NoObj}
      BY <1>3, InvalidateTyped DEF DropStale, InvalidateFailed
    <2>2. \A q \in Readers : pc'[q] = "reserve" => pc[q] = "reserve" /\ key'[q] = key[q]
      BY <1>3 DEF DropStale, InvalidateFailed, Done, Goto, TypeOK, local
    <2> QED  BY <2>1, <2>2, RoomKept
  <1>4. ASSUME NEW w \in Writers, WriteStep(w) \/ Clear(w) \/ \E k \in Keys \cup {All} : Write(w, k)
        PROVE  Room'
    <2>1. \A k \in Keys : records'[k] \in {records[k], NoObj}
      BY <1>4, InvalidateTyped DEF WriteStep, WriteExecuted, WriteFails, WriteCancelled,
           WriteInvalidates, ClearExecuted, ClearFails, Clear, Write, store
    <2>2. \A q \in Readers : pc'[q] = pc[q] /\ key'[q] = key[q]
      BY <1>4 DEF WriteStep, WriteExecuted, WriteFails, WriteCancelled,
           WriteInvalidates, ClearExecuted, ClearFails, Clear, Write, Done, Goto, TypeOK, local
    <2> QED  BY <2>1, <2>2, RoomKept
  <1>5. ASSUME HandleOwn \/ Handle \/ HandleInvalidates \/ DoExpiration \/ Member
        PROVE  Room'
    <2>1. \A k \in Keys : records'[k] \in {records[k], NoObj}
      BY <1>5, InvalidateTyped DEF HandleOwn, Handle, HandleInvalidates, DoExpiration, Member,
           OtherClient, LateWrite, store
    <2>2. \A q \in Readers : pc'[q] = pc[q] /\ key'[q] = key[q]
      BY <1>5 DEF HandleOwn, Handle, HandleInvalidates, DoExpiration, Member,
           OtherClient, LateWrite, Done, Goto, TypeOK, local
    <2> QED  BY <2>1, <2>2, RoomKept
  <1>6. CASE UNCHANGED vars
    BY <1>6, RoomKept DEF vars, store, local
  <1> QED
    BY <1>1, <1>2, <1>3, <1>4, <1>5, <1>6, EvictRoom, TestFullRoom, ReserveRoom
    DEF Next, ReadStep

\* Under the concurrent calls of any number of readers, the cache holds at most
\* one record per reader, less one, beyond the size that the configuration sets,
\* whether a full cache evicts or takes no new keys.
THEOREM SizeIsBounded == Spec => []SizeBound
  <1>1. Init => SizeInv
    <2> SUFFICES ASSUME Init PROVE Room
      BY InitTyped DEF SizeInv
    <2>1. Present = {} /\ Reserving = {} /\ Claimed = {}
      BY ThreadKinds DEF Init, Present, Reserving, Claimed
    <2> QED  BY <2>1, FS_EmptySet, ReservingFinite DEF Room
  <1>2. SizeInv /\ [Next]_vars => SizeInv'
    BY NextTyped, NextRoom DEF SizeInv
  <1>3. SizeInv => SizeBound
    BY ClaimedFinite, ReservingFinite DEF SizeInv, Room, SizeBound, Limit
  <1> QED  BY <1>1, <1>2, <1>3, PTL DEF Spec
=============================================================================
