------------------------------ MODULE ProxyBatch ------------------------------
(***************************************************************************)
(* Map.PutAll, ReplicatedMap.PutAll and Map.GetAll without a Near Cache:   *)
(* the entries or keys are grouped by partition, one request is made for   *)
(* every partition and the results are joined.  The futures of the code    *)
(* run one after the other, in the order of Go's map; a future that failed *)
(* does not stop the others.  The members' storage is external.            *)
(***************************************************************************)
EXTENDS Integers, Sequences, SequencesExt, FiniteSets

CONSTANTS
    PartitionIDs,
    PartitionIDOf,   \* per key: PartitionService.GetPartitionID
    Batches,         \* entries an application passes: sequences of [key, value]; NilValue is nil
    Stored0          \* what the members hold at first: keys to values

VARIABLES
    batch,           \* the arguments of the call
    doing,           \* "put", "get" or "idle"
    batchAt,         \* "idle", "sending" or "returned"
    groups,          \* partitionToPairs or partitionToKeys: what is left to send
    futures,         \* the results in the order of the requests
    batchResult,     \* what the call returned
    stored           \* members: per partition and key the value, NilValue if absent

batchVars == <<batch, doing, batchAt, groups, futures, batchResult, stored>>

NilValue == "nil"
AnyKey   == DOMAIN PartitionIDOf

\* A key has a partition; members hold no nil.
ASSUME BatchAssumption ==
    /\ PartitionIDOf \in [AnyKey -> PartitionIDs]
    /\ DOMAIN Stored0 \subseteq AnyKey /\ \A k \in DOMAIN Stored0 : Stored0[k] # NilValue
    /\ \A b \in Batches : b \in Seq(ToSet(b)) /\ \A e \in ToSet(b) : e.key \in AnyKey \cup {NilValue}

NoPairs  == [p \in PartitionIDs |-> <<>>]
Failed   == [ok |-> FALSE, entries |-> <<>>]
Success(entries) == [ok |-> TRUE, entries |-> entries]

BatchInit ==
    /\ batch = <<>> /\ doing = "idle" /\ batchAt = "idle"
    /\ groups = NoPairs
    /\ futures = <<>> /\ batchResult = Success(<<>>)
    /\ stored = [p \in PartitionIDs |->
                    [k \in AnyKey |-> IF PartitionIDOf[k] = p /\ k \in DOMAIN Stored0 THEN Stored0[k] ELSE NilValue]]

---------------------------------------------------------------------------
\* partitionToPairs, partitionToKeys: every entry is appended to those of its
\* partition.  A nil entry makes the whole call fail before anything is sent.
AppendPair(pairs, e) == [pairs EXCEPT ![PartitionIDOf[e.key]] = Append(@, e)]

\* a mutant that keeps one entry of a group
partitionToPairsLast(entries) ==
    FoldLeft(LAMBDA pairs, e : [pairs EXCEPT ![PartitionIDOf[e.key]] = <<e>>], NoPairs, entries)

partitionToPairs(entries) == FoldLeft(AppendPair, NoPairs, entries)

HasNil(entries, what) ==
    \E n \in DOMAIN entries : entries[n].key = NilValue \/ (what = "put" /\ entries[n].value = NilValue)

CallBatch(entries, what) ==
    /\ batchAt = "idle"
    /\ batch' = entries /\ doing' = what
    /\ IF entries = <<>> \/ HasNil(entries, what)
       THEN /\ batchAt' = "returned" /\ groups' = groups
            /\ batchResult' = IF entries = <<>> THEN Success(<<>>) ELSE Failed
       ELSE /\ batchAt' = "sending" /\ groups' = partitionToPairs(entries)
            /\ batchResult' = batchResult
    /\ UNCHANGED <<futures, stored>>

\* the member of a partition stores, or reads, the entries of its request in
\* their order
StoreEntry(values, e) == [values EXCEPT ![e.key] = e.value]

StoreAll(values, entries) == FoldLeft(StoreEntry, values, entries)

ReadEntry(values, found, e) ==
    IF values[e.key] = NilValue THEN found ELSE Append(found, [key |-> e.key, value |-> values[e.key]])

ReadAll(values, entries) == FoldLeft(LAMBDA found, e : ReadEntry(values, found, e), <<>>, entries)

AfterWrite(p) == [stored EXCEPT ![p] = StoreAll(@, groups[p])]

\* one future: the request of partition p is sent and answered ...
FutureSucceeds(p) ==
    /\ batchAt = "sending" /\ groups[p] # <<>>
    /\ stored' = IF doing = "put" THEN AfterWrite(p) ELSE stored
    /\ futures' = Append(futures, Success(IF doing = "put" THEN <<>> ELSE ReadAll(stored[p], groups[p])))
    /\ groups' = [groups EXCEPT ![p] = <<>>]
    /\ UNCHANGED <<batch, doing, batchAt, batchResult>>

\* ... or fails, before or after the member has carried it out
FutureFails(p) ==
    /\ batchAt = "sending" /\ groups[p] # <<>>
    /\ stored' \in {stored} \cup (IF doing = "put" THEN {AfterWrite(p)} ELSE {})
    /\ futures' = Append(futures, Failed)
    /\ groups' = [groups EXCEPT ![p] = <<>>]
    /\ UNCHANGED <<batch, doing, batchAt, batchResult>>

\* the results are read in the order of the futures; the first error is returned
JoinFutures ==
    /\ batchAt = "sending" /\ \A p \in PartitionIDs : groups[p] = <<>>
    /\ batchAt' = "returned"
    /\ batchResult' = IF \E n \in DOMAIN futures : ~futures[n].ok THEN Failed
                      ELSE Success(FlattenSeq([n \in DOMAIN futures |-> futures[n].entries]))
    /\ UNCHANGED <<batch, doing, groups, futures, stored>>

BatchNext ==
    \/ \E entries \in Batches : \E what \in {"put", "get"} : CallBatch(entries, what)
    \/ \E p \in PartitionIDs : FutureSucceeds(p) \/ FutureFails(p)
    \/ JoinFutures

BatchSpec == BatchInit /\ [][BatchNext]_batchVars

---------------------------------------------------------------------------
LastValue(k) == LET at == {n \in DOMAIN batch : batch[n].key = k}
                IN  batch[CHOOSE n \in at : \A m \in at : m <= n].value

(***************************************************************************)
(* A batch that reports success is whole.  After PutAll every key of the   *)
(* batch has its last value at the member of its own partition; GetAll     *)
(* returned every entry the members hold for its keys and no other.  A     *)
(* batch with a nil entry touched nothing, and one whose request failed    *)
(* reports it (proxy.putAll, Map.getAllFromRemote).                        *)
(***************************************************************************)
BatchIsWhole ==
    batchAt = "returned" =>
        /\ doing = "put" /\ batchResult.ok =>
               \A n \in DOMAIN batch : stored[PartitionIDOf[batch[n].key]][batch[n].key] = LastValue(batch[n].key)
        /\ doing = "get" /\ batchResult.ok =>
               ToSet(batchResult.entries) =
               {[key |-> k, value |-> Stored0[k]] : k \in {batch[n].key : n \in DOMAIN batch} \cap DOMAIN Stored0}
        /\ (\E n \in DOMAIN futures : ~futures[n].ok) => ~batchResult.ok
        /\ HasNil(batch, doing) => \A p \in PartitionIDs, k \in AnyKey :
               stored[p][k] # NilValue => k \in DOMAIN Stored0 /\ Stored0[k] = stored[p][k]
=============================================================================
