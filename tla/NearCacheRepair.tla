-------------------------- MODULE NearCacheRepair --------------------------
(***************************************************************************)
(* RepairingHandler, ReparingTask and StaleReadDetector of                 *)
(* internal/nearcache, when invalidations and partitions are lost: the     *)
(* handler and the task follow the sequence and the UUID of a partition,   *)
(* and a record that was reserved under an old UUID, or before a sequence  *)
(* that turned out to be missed, is stale.                                 *)
(*                                                                         *)
(* One partition with one key, read by one goroutine of this client and    *)
(* changed by other clients; NearCache has the races between readers and   *)
(* writers.  A value is the number of the write that stored it and 0 for   *)
(* "absent".                                                               *)
(***************************************************************************)
EXTENDS Integers, Sequences

CONSTANTS
    MaxTolerated,  \* MaxToleratedMissCount
    AsyncInit,     \* the first fetch of the metadata failed and is repeated later
    MaxWrites,     \* bound on the changes of the map
    MaxUUID        \* bound on the UUIDs of the partition, one more per loss

ASSUME BoundsAssumption ==
    /\ MaxTolerated \in Nat /\ MaxWrites \in Nat \ {0} /\ MaxUUID \in Nat \ {0}
ASSUME OptionsAssumption == AsyncInit \in BOOLEAN

NoVal   == -1
Values  == 0..MaxWrites
Seqs    == 0..MaxWrites
Repairers == {"handler", "task", "init"}
Msgs    == [uuid : 1..MaxUUID, seq : Seqs]
Records == [val : Values \cup {NoVal}, seq : Seqs, uuid : 0..MaxUUID]

VARIABLES
    \* the member
    value,    \* the value of the key
    writes,   \* number of changes so far
    sseq,     \* the invalidation sequence of the partition
    suuid,    \* the UUID of the partition
    inbox,    \* invalidations on their way to the client
    \* the client
    record,   \* the records of the store, one at most
    making,   \* the record that is being reserved, while recordsMu is held
    got,      \* the value that the reader has read
    md,       \* MetaDataContainer of the partition
    pc,       \* where the reader, the handler, the task and the initializer are
    arg,      \* the UUID and sequences that a repairer is working with
    \* history
    lost,     \* an invalidation was lost, or the partition
    raced     \* two repairers have met in a way that loses a repair

member == <<value, writes, sseq, suuid, inbox>>
cache  == <<record, making, got>>
history == <<lost, raced>>
vars   == <<member, cache, md, pc, arg, history>>

Pcs == [reader  : {"idle", "meta", "remote", "publish"},
        handler : {"idle", "inval", "uuid", "reset", "resetStale", "seq", "missed"},
        task    : {"idle", "gaps", "stale", "cas", "fetch", "uuid", "reset",
                   "resetStale", "seq", "missed"},
        init    : {"fetch", "uuid", "seq", "idle"}]

\* The types of the variables; the store has room for one record.
TypeOK ==
    /\ value \in Values /\ writes \in Values
    /\ sseq \in Seqs /\ suuid \in 1..MaxUUID /\ inbox \in Seq(Msgs)
    /\ record \in {{}} \cup {{r} : r \in Records}
    /\ making \in {{}} \cup {{r} : r \in Records}
    /\ got \in Values \cup {NoVal}
    /\ md \in [seq : Seqs, stale : Seqs, missed : Nat, uuid : 0..MaxUUID]
    /\ pc \in Pcs
    /\ arg \in [Repairers -> [uuid : 0..MaxUUID, seq : Seqs, stale : Seqs, via : BOOLEAN]]
    /\ {lost, raced} \subseteq BOOLEAN

NoArg == [uuid |-> 0, seq |-> 0, stale |-> 0, via |-> FALSE]

\* The cache is empty; its metadata was fetched, or it was never initialized.
Init ==
    /\ value = 1 /\ writes = 1 /\ sseq = 0 /\ suuid = 1 /\ inbox = <<>>
    /\ record = {} /\ making = {} /\ got = NoVal
    /\ md = [seq |-> 0, stale |-> 0, missed |-> 0, uuid |-> IF AsyncInit THEN 0 ELSE 1]
    /\ pc = [reader |-> "idle", handler |-> "idle", task |-> "idle",
             init |-> IF AsyncInit THEN "fetch" ELSE "idle"]
    /\ arg = [t \in Repairers |-> NoArg]
    /\ lost = FALSE /\ raced = FALSE

Goto(t, l) == pc' = [pc EXCEPT ![t] = l]

-----------------------------------------------------------------------------
(* The member (external): every change takes the next sequence of the      *)
(* partition and sends an invalidation with it.                            *)

OtherClient ==
    /\ writes < MaxWrites
    /\ writes' = writes + 1
    /\ value' = writes + 1
    /\ sseq' = sseq + 1
    /\ inbox' = Append(inbox, [uuid |-> suuid, seq |-> sseq + 1])
    /\ UNCHANGED <<suuid, cache, md, pc, arg, lost>>

\* An invalidation is lost with the connection that should have carried it.
LoseInvalidation ==
    /\ inbox # <<>>
    /\ inbox' = Tail(inbox)
    /\ lost' = TRUE
    /\ UNCHANGED <<value, writes, sseq, suuid, cache, md, pc, arg>>

\* The partition is lost with its data; the new one has another UUID.
LosePartition ==
    /\ suuid < MaxUUID
    /\ suuid' = suuid + 1
    /\ sseq' = 0
    /\ value' = 0
    /\ lost' = TRUE
    /\ UNCHANGED <<writes, inbox, cache, md, pc, arg>>

-----------------------------------------------------------------------------
(* The reader and the record store *)

\* Only a record that was published may be read.
Permitted == \E r \in record : r.val # NoVal

\* StaleReadDetector.IsStaleRead
IsStaleRead(r) ==
    \/ r.uuid = 0 \/ md.uuid = 0 \/ r.uuid # md.uuid
    \/ r.seq < md.stale

\* RecordStore.Get of a stale record.
DropStale ==
    /\ pc.reader = "idle"
    /\ Permitted /\ \E r \in record : IsStaleRead(r)
    /\ record' = {}
    /\ UNCHANGED <<member, making, got, md, pc, arg, lost>>

\* newReservationRecord reads the sequence, then the UUID, of the metadata.
Reserve ==
    /\ pc.reader = "idle" /\ record = {}
    /\ making' = {[val |-> NoVal, seq |-> md.seq, uuid |-> 0]}
    /\ Goto("reader", "meta")
    /\ UNCHANGED <<member, record, got, md, arg, lost>>

Reserved ==
    /\ pc.reader = "meta"
    /\ record' = {[r EXCEPT !.uuid = md.uuid] : r \in making}
    /\ making' = {}
    /\ Goto("reader", "remote")
    /\ UNCHANGED <<member, got, md, arg, lost>>

RemoteGet ==
    /\ pc.reader = "remote"
    /\ got' = value
    /\ Goto("reader", "publish")
    /\ UNCHANGED <<member, record, making, md, arg, lost>>

TryPublishReserved ==
    /\ pc.reader = "publish"
    /\ record' = {[r EXCEPT !.val = got] : r \in record}
    /\ got' = NoVal
    /\ Goto("reader", "idle")
    /\ UNCHANGED <<member, making, md, arg, lost>>

-----------------------------------------------------------------------------
(* RepairingHandler *)

\* Mutant: an invalidation whose sequence is known is taken for a duplicate.
HandleOnce ==
    /\ pc.handler = "idle" /\ inbox # <<>>
    /\ arg' = [arg EXCEPT !["handler"] = [NoArg EXCEPT !.uuid = Head(inbox).uuid,
                                                         !.seq = Head(inbox).seq]]
    /\ inbox' = Tail(inbox)
    /\ Goto("handler", IF Head(inbox).seq <= md.seq THEN "uuid" ELSE "inval")
    /\ UNCHANGED <<value, writes, sseq, suuid, cache, md, lost>>

\* Handle takes an invalidation of another client, ...
Handle ==
    /\ pc.handler = "idle" /\ inbox # <<>>
    /\ arg' = [arg EXCEPT !["handler"] = [NoArg EXCEPT !.uuid = Head(inbox).uuid,
                                                         !.seq = Head(inbox).seq]]
    /\ inbox' = Tail(inbox)
    /\ Goto("handler", "inval")
    /\ UNCHANGED <<value, writes, sseq, suuid, cache, md, lost>>

\* ... drops the record, unless a reservation holds recordsMu, ...
HandleInvalidates ==
    /\ pc.handler = "inval"
    /\ making = {}
    /\ record' = {}
    /\ Goto("handler", "uuid")
    /\ UNCHANGED <<member, making, got, md, arg, lost>>

\* ... and looks at the UUID: a new one is stored, then the sequences start again.
CheckOrRepairUUID(t) ==
    /\ pc[t] = "uuid"
    /\ Goto(t, IF md.uuid = arg[t].uuid THEN "seq" ELSE "reset")
    /\ md' = [md EXCEPT !.uuid = arg[t].uuid]
    /\ UNCHANGED <<member, cache, arg, lost>>

ResetSequence(t) ==
    /\ pc[t] = "reset"
    /\ md' = [md EXCEPT !.seq = 0]
    /\ Goto(t, "resetStale")
    /\ UNCHANGED <<member, cache, arg, lost>>

ResetStaleSequence(t) ==
    /\ pc[t] = "resetStale"
    /\ md' = [md EXCEPT !.stale = 0]
    /\ Goto(t, "seq")
    /\ UNCHANGED <<member, cache, arg, lost>>

\* Mutant: what anti-entropy has found is counted as a handled invalidation.
MissCountExclusive(t) == arg[t].seq - md.seq - 1

\* The invalidations between the sequence the client has and the next one; the
\* invalidation that is being handled is not missed, what anti-entropy found is.
MissCount(t) == arg[t].seq - md.seq - (IF arg[t].via THEN 0 ELSE 1)

\* CheckOrRepairSequence, and the count of what was missed.
CheckOrRepairSequence(t) ==
    /\ pc[t] = "seq"
    /\ IF md.seq >= arg[t].seq
       THEN /\ Goto(t, "idle")
            /\ arg' = [arg EXCEPT ![t] = NoArg]
            /\ UNCHANGED md
       ELSE /\ md' = [md EXCEPT !.seq = arg[t].seq]
            /\ arg' = [arg EXCEPT ![t] = [NoArg EXCEPT !.seq = MissCount(t)]]
            /\ Goto(t, IF MissCount(t) > 0 THEN "missed" ELSE "idle")
    /\ UNCHANGED <<member, cache, lost>>

AddMissed(t) ==
    /\ pc[t] = "missed"
    /\ md' = [md EXCEPT !.missed = @ + arg[t].seq]
    /\ arg' = [arg EXCEPT ![t] = NoArg]
    /\ Goto(t, "idle")
    /\ UNCHANGED <<member, cache, lost>>

-----------------------------------------------------------------------------
(* ReparingTask *)

Fetched(t, via) ==
    arg' = [arg EXCEPT ![t] = [NoArg EXCEPT !.uuid = suuid, !.seq = sseq, !.via = via]]

\* InvalidationMetaDataFetcher.Init in the background, in a goroutine of its own; ...
InitFetch ==
    /\ pc.init = "fetch"
    /\ Fetched("init", FALSE)
    /\ Goto("init", "uuid")
    /\ UNCHANGED <<member, cache, md, lost>>

\* ... when it is given up, anti-entropy has to do.
InitGivenUp ==
    /\ pc.init = "fetch"
    /\ Goto("init", "idle")
    /\ UNCHANGED <<member, cache, md, arg, lost>>

InitUUID ==
    /\ pc.init = "uuid"
    /\ md' = [md EXCEPT !.uuid = arg["init"].uuid]
    /\ Goto("init", "seq")
    /\ UNCHANGED <<member, cache, arg, lost>>

InitSequence ==
    /\ pc.init = "seq"
    /\ md' = [md EXCEPT !.seq = arg["init"].seq]
    /\ arg' = [arg EXCEPT !["init"] = NoArg]
    /\ Goto("init", "idle")
    /\ UNCHANGED <<member, cache, lost>>

\* run: fixSequenceGaps first, ...
FixSequenceGaps ==
    /\ pc.task = "idle"
    /\ IF md.missed > MaxTolerated
       THEN Goto("task", "gaps") /\ md' = [md EXCEPT !.missed = 0]
       ELSE Goto("task", "fetch") /\ UNCHANGED md
    /\ UNCHANGED <<member, cache, arg, lost>>

\* (UpdateLastKnownStaleSequence reads the two sequences, one after the other,
\* and swaps if the stale one is still the same.)
ReadSequence ==
    /\ pc.task = "gaps"
    /\ arg' = [arg EXCEPT !["task"] = [NoArg EXCEPT !.seq = md.seq]]
    /\ Goto("task", "stale")
    /\ UNCHANGED <<member, cache, md, lost>>

ReadStaleSequence ==
    /\ pc.task = "stale"
    /\ arg' = [arg EXCEPT !["task"].stale = md.stale]
    /\ Goto("task", IF md.stale >= arg["task"].seq THEN "fetch" ELSE "cas")
    /\ UNCHANGED <<member, cache, md, lost>>

CASStaleSequence ==
    /\ pc.task = "cas"
    /\ IF md.stale = arg["task"].stale
       THEN Goto("task", "fetch") /\ md' = [md EXCEPT !.stale = arg["task"].seq]
       ELSE Goto("task", "gaps") /\ UNCHANGED md
    /\ UNCHANGED <<member, cache, arg, lost>>

\* ... then runAntiEntropy when its time has come and the member answers, ...
RunAntiEntropy ==
    /\ pc.task = "fetch"
    /\ Fetched("task", TRUE)
    /\ Goto("task", "uuid")
    /\ UNCHANGED <<member, cache, md, lost>>

\* ... or not.
NoAntiEntropy ==
    /\ pc.task = "fetch"
    /\ arg' = [arg EXCEPT !["task"] = NoArg]
    /\ Goto("task", "idle")
    /\ UNCHANGED <<member, cache, md, lost>>

-----------------------------------------------------------------------------
ReadStep == Reserved \/ RemoteGet \/ TryPublishReserved

RepairStep(t) ==
    \/ CheckOrRepairUUID(t) \/ ResetSequence(t) \/ ResetStaleSequence(t)
    \/ CheckOrRepairSequence(t) \/ AddMissed(t)

HandleStep == Handle \/ HandleInvalidates \/ RepairStep("handler")

InitStep == InitFetch \/ InitGivenUp \/ InitUUID \/ InitSequence

TaskStep == \/ FixSequenceGaps \/ ReadSequence \/ ReadStaleSequence \/ CASStaleSequence
            \/ RunAntiEntropy \/ NoAntiEntropy \/ RepairStep("task")

\* A repairer has stored a new UUID and not yet reset the sequences while another
\* repairer or a reservation works with them, or the first fetch is answered when
\* somebody else has set the UUID.
Working(t) == pc[t] \notin {"idle", "fetch", "inval"}
Meeting ==
    \/ \E t, u \in Repairers : t # u /\ pc[t] \in {"reset", "resetStale"} /\ Working(u)
    \/ \E t \in Repairers : pc[t] = "reset" /\ pc.reader = "meta"
    \/ pc.init = "uuid" /\ md.uuid # 0

Next ==
    /\ \/ OtherClient \/ LoseInvalidation \/ LosePartition
       \/ DropStale \/ Reserve \/ ReadStep \/ HandleStep \/ InitStep \/ TaskStep
    /\ raced' = (raced \/ Meeting)

Spec == Init /\ [][Next]_vars

-----------------------------------------------------------------------------
(* Properties *)

\* An invalidation that was not yet applied.
Pending == inbox # <<>> \/ pc.handler = "inval"

\* Following the sequences never costs an invalidation: while none is lost, a
\* record holds the value of the map or its invalidation has still to be applied,
\* though anti-entropy may have seen its sequence already.
AppliedUnlessLost ==
    ~lost /\ ~Pending => \A r \in record : r.val \in {NoVal, value}

\* Get answers with a value that the map no longer holds.
StaleServed == \E r \in record : r.val \notin {NoVal, value} /\ ~IsStaleRead(r)

\* The client has seen the last change of the partition and has dealt with what
\* it missed on the way.
CaughtUp ==
    /\ inbox = <<>> /\ pc.handler = "idle" /\ pc.task = "idle"
    /\ md.uuid = suuid /\ md.seq = sseq /\ md.missed = 0

\* The repairing task finds "if any Near Cache needs to be invalidated according to
\* missed invalidation counts": whatever was lost, a client that has caught up
\* answers with no stale value, unless two repairers have met.
CaughtUpIsRepaired == CaughtUp /\ ~raced => ~StaleServed
=============================================================================
