----------------------- MODULE NearCacheRepairProofs -----------------------
(***************************************************************************)
(* Proofs about NearCacheRepair, for any number of changes, any number of  *)
(* lost partitions and any tolerated miss count.                           *)
(*                                                                         *)
(* CaughtUpIsRepaired speaks of a client at rest.  The invariant follows a *)
(* record from its reservation: it holds the value that the key had at     *)
(* some sequence n of the partition (ReadAt).  The handler and the         *)
(* initializer never move the sequence of the metadata beyond n, because   *)
(* what they work with is older than the record; only the task does, and   *)
(* then it has counted a miss that it is bound to turn into a stale        *)
(* sequence beyond the record (Repairing).                                 *)
(***************************************************************************)
EXTENDS NearCacheRepair, TLAPS

\* The reader fills a reservation that is its own, and nothing else is in the store.
Filling ==
    /\ pc.reader = "meta" <=> making # {}
    /\ making # {} => record = {}
    /\ \A r \in making : r.val = NoVal
    /\ \A r \in record : r.val = NoVal <=> pc.reader \in {"remote", "publish"}
    /\ got # NoVal <=> pc.reader = "publish"

\* What a record holds, or will hold when its reader has published.
Content(r) == IF pc.reader = "publish" THEN got ELSE r.val
HasContent == pc.reader \in {"idle", "publish"}

Applied == ~lost /\ ~Pending /\ HasContent => \A r \in record : Content(r) = value

-----------------------------------------------------------------------------
\* A repairer works with a UUID and a sequence; it has compared the UUID.
InPlay == {"uuid", "reset", "resetStale", "seq"}
Known  == {"reset", "resetStale", "seq"}

\* The metadata have a new UUID and the sequence of the old one.
Resetting == \E t \in Repairers : pc[t] = "reset"

\* The first two cases of Meeting: they end an argument at once, the third one only
\* when the initializer goes on.
Clash ==
    \/ \E t, u \in Repairers : t # u /\ pc[t] \in {"reset", "resetStale"} /\ Working(u)
    \/ \E t \in Repairers : pc[t] = "reset" /\ pc.reader = "meta"
Apart == ~raced /\ ~Clash

\* The value of the key when the sequence of the partition was n.
ValueAt(n) == IF n = 0 /\ suuid > 1 THEN 0 ELSE n + (writes - sseq)

\* The member: every sequence of the partition has its value.
Numbered == value = ValueAt(sseq) /\ sseq <= writes

\* A UUID and a sequence that the member has given.
IsOld(uuid, seq) == uuid <= suuid /\ (uuid = suuid => seq <= sseq)

\* Nothing in the client is of a later partition, or of a later sequence, than the member.
Behind ==
    /\ md.uuid <= suuid
    /\ \A r \in record : r.uuid <= suuid
    /\ \A i \in DOMAIN inbox : IsOld(inbox[i].uuid, inbox[i].seq)
    /\ \A t \in Repairers : pc[t] \in InPlay \cup {"inval"} =>
         /\ arg[t].uuid > 0 /\ IsOld(arg[t].uuid, arg[t].seq)
         /\ arg[t].via <=> t = "task"
    /\ pc.task = "cas" => arg["task"].stale < arg["task"].seq

\* The metadata, as long as nobody has met.
Followed == Apart =>
    /\ md.uuid = 0 => md.seq = 0 /\ \A r \in record : r.uuid = 0
    /\ md.uuid = 0 => \A r \in making : r.seq = 0
    /\ md.uuid = suuid => \A r \in making : r.seq <= sseq
    /\ md.uuid = suuid /\ ~Resetting => md.seq <= sseq
    /\ \A t \in Repairers : pc[t] \in Known => md.uuid = arg[t].uuid
    /\ \A t \in Repairers : pc[t] = "resetStale" => md.seq = 0

\* A record that is too old is made stale by what is under way.
Repairing(r) ==
    \/ r.seq < md.stale \/ md.missed > 0
    \/ pc.task = "missed" /\ arg["task"].seq > 0
    \/ pc.task = "gaps"
    \/ pc.task \in {"stale", "cas"} /\ r.seq < arg["task"].seq

\* The content of r was read when the sequence was n.
ReadAt(r, n) ==
    /\ Content(r) = ValueAt(n) /\ r.seq <= n
    /\ pc.handler \in InPlay /\ arg["handler"].uuid = suuid => arg["handler"].seq <= n
    /\ pc.init = "seq" /\ arg["init"].uuid = suuid => arg["init"].seq <= n
    /\ md.uuid = suuid /\ ~Resetting => md.seq <= n \/ Repairing(r)

Repaired == Apart => \A r \in record : r.uuid = suuid =>
    /\ pc.reader = "remote" => r.seq <= sseq
    /\ HasContent => \E n \in 0..sseq : ReadAt(r, n)

RepairInv == TypeOK /\ Filling /\ Numbered /\ Behind /\ Followed /\ Repaired

-----------------------------------------------------------------------------
(* Type correctness *)

Procs == {"reader", "handler", "task", "init"}

PcTypes ==
    [reader  |-> {"idle", "meta", "remote", "publish"},
     handler |-> {"idle", "inval", "uuid", "reset", "resetStale", "seq", "missed"},
     task    |-> {"idle", "gaps", "stale", "cas", "fetch", "uuid", "reset",
                  "resetStale", "seq", "missed"},
     init    |-> {"fetch", "uuid", "seq", "idle"}]

Args == [uuid : 0..MaxUUID, seq : Seqs, stale : Seqs, via : BOOLEAN]
MetaData == [seq : Seqs, stale : Seqs, missed : Nat, uuid : 0..MaxUUID]

\* A goroutine goes on, and the others stay where they are.
LEMMA GotoEffect ==
  ASSUME pc \in Pcs, NEW t \in Procs, NEW l \in PcTypes[t], Goto(t, l)
  PROVE  pc' \in Pcs /\ pc'[t] = l /\ \A u \in Procs \ {t} : pc'[u] = pc[u]
  BY DEF Pcs, Procs, PcTypes, Goto

\* A repairer has new arguments, and the others keep theirs.
LEMMA ArgEffect ==
  ASSUME arg \in [Repairers -> Args], NEW t \in Repairers, NEW a \in Args,
         arg' = [arg EXCEPT ![t] = a]
  PROVE  /\ arg' \in [Repairers -> Args] /\ arg'[t] = a
         /\ \A u \in Repairers \ {t} : arg'[u] = arg[u]
  BY DEF Args, Repairers

LEMMA NumberTypes == /\ Seqs \subseteq Nat /\ 0 \in Seqs /\ Values = Seqs /\ NoVal \notin Values
                     /\ 0..MaxUUID \subseteq Nat /\ 1..MaxUUID \subseteq 0..MaxUUID
                     /\ \A i \in Seqs : \A j \in Nat : j <= i => j \in Seqs
  BY BoundsAssumption DEF Seqs, Values, NoVal

LEMMA NoArgType == NoArg \in Args
  BY NumberTypes, BoundsAssumption DEF NoArg, Args

LEMMA InitType == Init => TypeOK /\ Filling
<1> SUFFICES ASSUME Init PROVE TypeOK /\ Filling
  OBVIOUS
<1>1. pc \in Pcs /\ pc.reader = "idle"
  BY OptionsAssumption DEF Init, Pcs
<1>2. arg \in [Repairers -> Args]
  BY NoArgType DEF Init
<1>3. md \in MetaData
  BY BoundsAssumption, OptionsAssumption DEF Init, MetaData, Seqs
<1>4. /\ value \in Values /\ writes \in Values /\ sseq \in Seqs /\ suuid \in 1..MaxUUID
      /\ inbox \in Seq(Msgs)
  BY BoundsAssumption DEF Init, Values, Seqs
<1> QED
  BY <1>1, <1>2, <1>3, <1>4 DEF Init, TypeOK, Filling, Args, MetaData

\* The members of the records.
LEMMA TypeFacts ==
  ASSUME TypeOK
  PROVE  /\ value \in Nat /\ writes \in Nat /\ sseq \in Nat /\ suuid \in Nat /\ suuid > 0
         /\ md \in MetaData /\ md.seq \in Nat /\ md.stale \in Nat /\ md.missed \in Nat /\ md.uuid \in Nat
         /\ pc \in Pcs /\ arg \in [Repairers -> Args]
         /\ \A t \in Repairers : /\ arg[t] \in Args /\ arg[t].uuid \in Nat /\ arg[t].seq \in Nat
                                 /\ arg[t].stale \in Nat /\ arg[t].via \in BOOLEAN
         /\ \A r \in record \cup making : r \in Records /\ r.seq \in Nat /\ r.uuid \in Nat
         /\ \A r, q \in record : r = q
         /\ raced \in BOOLEAN /\ lost \in BOOLEAN
<1>1. md \in MetaData /\ pc \in Pcs /\ arg \in [Repairers -> Args]
  BY DEF TypeOK, MetaData, Args
<1>2. md.seq \in Nat /\ md.stale \in Nat /\ md.missed \in Nat /\ md.uuid \in Nat
  BY <1>1, NumberTypes DEF MetaData
<1>3. ASSUME NEW a \in Args PROVE a.uuid \in Nat /\ a.seq \in Nat /\ a.stale \in Nat /\ a.via \in BOOLEAN
  BY <1>3, NumberTypes DEF Args
<1>4. ASSUME NEW r \in Records PROVE r.seq \in Nat /\ r.uuid \in Nat
  BY <1>4, NumberTypes DEF Records
<1>5. \A r \in record \cup making : r \in Records
  BY DEF TypeOK
<1> QED
  BY <1>1, <1>2, <1>3, <1>4, <1>5, NumberTypes, BoundsAssumption DEF TypeOK

\* A step after which nobody has met is taken when nobody had met.
LEMMA WasApart ==
  ASSUME TypeOK, raced' = (raced \/ Meeting), Apart'
  PROVE  Apart /\ ~(pc.init = "uuid" /\ md.uuid # 0)
  BY TypeFacts DEF Apart, Clash, Meeting

LEMMA OtherClientInv ==
  ASSUME RepairInv, OtherClient, raced' = (raced \/ Meeting)
  PROVE  RepairInv'
<1>1. /\ writes' = writes + 1 /\ value' = writes + 1 /\ sseq' = sseq + 1
      /\ inbox' = Append(inbox, [uuid |-> suuid, seq |-> sseq + 1])
      /\ UNCHANGED <<suuid, record, making, got, md, pc, arg, lost>>
  BY DEF OtherClient, cache
<1>2. /\ writes \in Nat /\ sseq \in Nat /\ suuid \in Nat /\ suuid > 0 /\ sseq <= writes
      /\ inbox \in Seq(Msgs) /\ writes < MaxWrites
  BY TypeFacts DEF RepairInv, TypeOK, Numbered, OtherClient
<1>3. sseq + 1 \in Seqs /\ writes + 1 \in Values /\ [uuid |-> suuid, seq |-> sseq + 1] \in Msgs
  BY <1>2, BoundsAssumption DEF Seqs, Values, Msgs, RepairInv, TypeOK
<1>4. TypeOK'
  <2>1. raced' \in BOOLEAN
    BY DEF Meeting
  <2> QED
    BY <1>1, <1>2, <1>3, <2>1 DEF RepairInv, TypeOK
<1>5. Filling'
  BY <1>1 DEF RepairInv, Filling
<1>6. Numbered' /\ \A n \in 0..sseq : ValueAt(n)' = ValueAt(n)
  BY <1>1, <1>2 DEF Numbered, ValueAt
<1>7. Behind'
  <2>1. PICK m \in Msgs : m.uuid = suuid /\ m.seq = sseq + 1 /\ inbox' = Append(inbox, m)
    BY <1>1, <1>3
  <2>2. ASSUME NEW i \in DOMAIN inbox'
        PROVE  inbox'[i].uuid <= suuid' /\ (inbox'[i].uuid = suuid' => inbox'[i].seq <= sseq')
    <3>1. CASE i \in DOMAIN inbox
      <4>1. inbox'[i] = inbox[i] /\ inbox[i] \in Msgs /\ IsOld(inbox[i].uuid, inbox[i].seq)
        BY <1>2, <2>1, <3>1 DEF RepairInv, Behind
      <4>2. inbox[i].uuid \in Nat /\ inbox[i].seq \in Nat
        BY <4>1, NumberTypes DEF Msgs
      <4> QED
        BY <1>1, <1>2, <4>1, <4>2 DEF IsOld
    <3>2. CASE i \notin DOMAIN inbox
      <4>1. inbox'[i] = m
        BY <1>2, <2>1, <3>2
      <4> QED
        BY <1>1, <1>2, <2>1, <4>1
    <3> QED
      BY <3>1, <3>2
  <2>3. ASSUME NEW t \in Repairers, IsOld(arg[t].uuid, arg[t].seq)
        PROVE  IsOld(arg[t].uuid, arg[t].seq)'
    BY <1>1, <1>2, <2>3, TypeFacts DEF IsOld, RepairInv
  <2> QED
    BY <1>1, <1>2, <2>2, <2>3 DEF RepairInv, Behind, IsOld
<1>8. ASSUME Apart' PROVE Apart
  BY <1>8, WasApart DEF RepairInv
<1>9. Followed'
  BY <1>1, <1>2, <1>8, TypeFacts DEF RepairInv, Followed, Resetting
<1>10. Repaired'
  <2> SUFFICES ASSUME Apart', NEW r \in record, r.uuid = suuid
               PROVE  /\ pc.reader = "remote" => r.seq <= sseq + 1
                      /\ HasContent => \E n \in 0..(sseq + 1) : ReadAt(r, n)'
    BY <1>1 DEF Repaired, HasContent
  <2>1. /\ pc.reader = "remote" => r.seq <= sseq
        /\ HasContent => \E n \in 0..sseq : ReadAt(r, n)
    BY <1>8 DEF RepairInv, Repaired
  <2>2. ASSUME NEW n \in 0..sseq, ReadAt(r, n) PROVE ReadAt(r, n)'
    BY <1>1, <1>6, <2>2 DEF ReadAt, Content, Resetting, Repairing
  <2> QED
    BY <1>2, <2>1, <2>2, TypeFacts DEF RepairInv
<1> QED
  BY <1>4, <1>5, <1>6, <1>7, <1>9, <1>10 DEF RepairInv

\* What a step of the reader leaves alone.
LEMMA ReaderGoes ==
  ASSUME TypeOK, NEW l \in PcTypes["reader"], Goto("reader", l)
  PROVE  /\ pc' \in Pcs /\ pc'.reader = l
         /\ \A t \in Repairers : pc'[t] = pc[t]
         /\ pc'.handler = pc.handler /\ pc'.task = pc.task /\ pc'.init = pc.init
<1>1. /\ "reader" \in Procs /\ Repairers \subseteq Procs \ {"reader"}
      /\ {"handler", "task", "init"} \subseteq Procs \ {"reader"}
  BY DEF Procs, Repairers
<1> QED
  BY <1>1, GotoEffect DEF TypeOK

LEMMA LoseInvalidationInv ==
  ASSUME RepairInv, LoseInvalidation, raced' = (raced \/ Meeting)
  PROVE  RepairInv'
<1>1. /\ inbox # <<>> /\ inbox' = Tail(inbox) /\ lost' = TRUE
      /\ UNCHANGED <<value, writes, sseq, suuid, record, making, got, md, pc, arg>>
  BY DEF LoseInvalidation, cache
<1>2. inbox \in Seq(Msgs)
  BY DEF RepairInv, TypeOK
<1>3. TypeOK'
  BY <1>1, <1>2 DEF RepairInv, TypeOK, Meeting
<1>4. Filling' /\ Numbered'
  BY <1>1 DEF RepairInv, Filling, Numbered, ValueAt
<1>5. Behind'
  <2>1. \A i \in DOMAIN inbox' : i + 1 \in DOMAIN inbox /\ inbox'[i] = inbox[i + 1]
    BY <1>1, <1>2
  <2> QED
    BY <1>1, <2>1 DEF RepairInv, Behind, IsOld
<1>6. ASSUME Apart' PROVE Apart
  BY <1>6, WasApart DEF RepairInv
<1>7. Followed' /\ Repaired'
  BY <1>1, <1>6 DEF RepairInv, Followed, Repaired, ReadAt, Content, HasContent, Resetting, Repairing, ValueAt
<1> QED
  BY <1>3, <1>4, <1>5, <1>7 DEF RepairInv

LEMMA LosePartitionInv ==
  ASSUME RepairInv, LosePartition, raced' = (raced \/ Meeting)
  PROVE  RepairInv'
<1>1. /\ suuid < MaxUUID /\ suuid' = suuid + 1 /\ sseq' = 0 /\ value' = 0 /\ lost' = TRUE
      /\ UNCHANGED <<writes, inbox, record, making, got, md, pc, arg>>
  BY DEF LosePartition, cache
<1>2. /\ suuid \in Nat /\ suuid > 0 /\ writes \in Nat /\ md.uuid <= suuid /\ md.uuid \in Nat
      /\ \A r \in record : r.uuid <= suuid /\ r.uuid \in Nat
      /\ inbox \in Seq(Msgs)
  BY TypeFacts DEF RepairInv, Behind, TypeOK
<1>3. TypeOK'
  <2>1. suuid' \in 1..MaxUUID
    BY <1>1, <1>2, BoundsAssumption
  <2>2. sseq' \in Seqs /\ value' \in Values
    BY <1>1, NumberTypes
  <2> QED
    BY <1>1, <2>1, <2>2 DEF RepairInv, TypeOK, Meeting
<1>4. Filling' /\ Numbered'
  BY <1>1, <1>2 DEF RepairInv, Filling, Numbered, ValueAt
<1>5. Behind'
  <2>1. ASSUME NEW u \in Nat, NEW q, u <= suuid
        PROVE  u <= suuid' /\ u # suuid'
    BY <1>1, <1>2, <2>1
  <2>2. ASSUME NEW i \in DOMAIN inbox PROVE inbox[i].uuid \in Nat /\ inbox[i].uuid <= suuid
    <3>1. inbox[i] \in Msgs
      BY <1>2
    <3> QED
      BY <3>1, NumberTypes DEF Msgs, RepairInv, Behind, IsOld
  <2>3. ASSUME NEW t \in Repairers, pc[t] \in InPlay \cup {"inval"}
        PROVE  arg[t].uuid \in Nat /\ arg[t].uuid <= suuid
    BY <2>3, TypeFacts DEF RepairInv, Behind, IsOld
  <2> QED
    BY <1>1, <1>2, <2>1, <2>2, <2>3 DEF RepairInv, Behind, IsOld
<1>6. ASSUME Apart' PROVE Apart
  BY <1>6, WasApart DEF RepairInv
<1>7. Followed'
  BY <1>1, <1>2, <1>6 DEF RepairInv, Followed, Resetting
<1>8. Repaired'
  BY <1>1, <1>2 DEF Repaired
<1> QED
  BY <1>3, <1>4, <1>5, <1>7, <1>8 DEF RepairInv

LEMMA DropStaleInv ==
  ASSUME RepairInv, DropStale, raced' = (raced \/ Meeting)
  PROVE  RepairInv'
<1>1. /\ record' = {} /\ UNCHANGED <<value, writes, sseq, suuid, inbox, making, got, md, pc, arg, lost>>
  BY DEF DropStale, member
<1>2. TypeOK'
  BY <1>1 DEF RepairInv, TypeOK, Meeting
<1>3. Filling' /\ Numbered' /\ Behind'
  BY <1>1 DEF RepairInv, Filling, Numbered, ValueAt, Behind, IsOld
<1>4. ASSUME Apart' PROVE Apart
  BY <1>4, WasApart DEF RepairInv
<1>5. Followed' /\ Repaired'
  BY <1>1, <1>4 DEF RepairInv, Followed, Repaired, Resetting
<1> QED
  BY <1>2, <1>3, <1>5 DEF RepairInv

LEMMA ReserveInv ==
  ASSUME RepairInv, Reserve, raced' = (raced \/ Meeting)
  PROVE  RepairInv'
<1>1. /\ pc.reader = "idle" /\ record = {}
      /\ UNCHANGED <<value, writes, sseq, suuid, inbox, record, got, md, arg, lost>>
      /\ Goto("reader", "meta")
  BY DEF Reserve, member
<1>2. PICK q : q = [val |-> NoVal, seq |-> md.seq, uuid |-> 0] /\ making' = {q}
  BY DEF Reserve
<1>3. q \in Records /\ q.val = NoVal /\ q.seq = md.seq
  <2>1. md.seq \in Seqs
    BY TypeFacts DEF RepairInv, MetaData
  <2>2. 0 \in 0..MaxUUID
    BY BoundsAssumption
  <2> QED
    BY <1>2, <2>1, <2>2 DEF Records
<1>4. /\ pc' \in Pcs /\ pc'.reader = "meta" /\ \A t \in Repairers : pc'[t] = pc[t]
      /\ pc'.handler = pc.handler /\ pc'.task = pc.task /\ pc'.init = pc.init
  BY <1>1, ReaderGoes DEF RepairInv, PcTypes
<1>5. TypeOK'
  BY <1>1, <1>2, <1>3, <1>4 DEF RepairInv, TypeOK, Meeting
<1>6. Filling' /\ Numbered' /\ Behind'
  BY <1>1, <1>2, <1>3, <1>4 DEF RepairInv, Filling, Numbered, ValueAt, Behind, IsOld
<1>7. ASSUME Apart' PROVE Apart /\ ~Resetting
  BY <1>4, <1>7, WasApart DEF RepairInv, Apart, Clash, Resetting
<1>8. Followed' /\ Repaired'
  BY <1>1, <1>2, <1>3, <1>4, <1>7 DEF RepairInv, Followed, Repaired, Resetting
<1> QED
  BY <1>5, <1>6, <1>8 DEF RepairInv

LEMMA ReservedInv ==
  ASSUME RepairInv, Reserved, raced' = (raced \/ Meeting)
  PROVE  RepairInv'
<1>1. /\ pc.reader = "meta" /\ making' = {}
      /\ UNCHANGED <<value, writes, sseq, suuid, inbox, got, md, arg, lost>>
      /\ Goto("reader", "remote")
  BY DEF Reserved, member
<1>2. PICK q \in Records : making = {q} /\ q.val = NoVal
  BY <1>1 DEF RepairInv, TypeOK, Filling
<1>3. PICK r : r = [q EXCEPT !.uuid = md.uuid] /\ record' = {r}
  BY <1>2 DEF Reserved
<1>4. r \in Records /\ r.val = NoVal /\ r.seq = q.seq /\ r.uuid = md.uuid
  BY <1>2, <1>3, TypeFacts DEF Records, RepairInv, MetaData
<1>5. /\ pc' \in Pcs /\ pc'.reader = "remote" /\ \A t \in Repairers : pc'[t] = pc[t]
      /\ pc'.handler = pc.handler /\ pc'.task = pc.task /\ pc'.init = pc.init
  BY <1>1, ReaderGoes DEF RepairInv, PcTypes
<1>6. TypeOK'
  BY <1>1, <1>3, <1>4, <1>5 DEF RepairInv, TypeOK, Meeting
<1>7. Filling' /\ Numbered' /\ Behind'
  BY <1>1, <1>3, <1>4, <1>5 DEF RepairInv, Filling, Numbered, ValueAt, Behind, IsOld
<1>8. ASSUME Apart' PROVE Apart
  BY <1>8, WasApart DEF RepairInv
<1>9. Followed'
  BY <1>1, <1>3, <1>4, <1>5, <1>8 DEF RepairInv, Followed, Resetting
<1>10. Repaired'
  BY <1>1, <1>2, <1>3, <1>4, <1>5, <1>8 DEF RepairInv, Followed, Repaired, HasContent
<1> QED
  BY <1>6, <1>7, <1>9, <1>10 DEF RepairInv

LEMMA RemoteGetInv ==
  ASSUME RepairInv, RemoteGet, raced' = (raced \/ Meeting)
  PROVE  RepairInv'
<1>1. /\ pc.reader = "remote" /\ got' = value
      /\ UNCHANGED <<value, writes, sseq, suuid, inbox, record, making, md, arg, lost>>
      /\ Goto("reader", "publish")
  BY DEF RemoteGet, member
<1>2. /\ pc' \in Pcs /\ pc'.reader = "publish" /\ \A t \in Repairers : pc'[t] = pc[t]
      /\ pc'.handler = pc.handler /\ pc'.task = pc.task /\ pc'.init = pc.init
  BY <1>1, ReaderGoes DEF RepairInv, PcTypes
<1>3. TypeOK'
  BY <1>1, <1>2 DEF RepairInv, TypeOK, Meeting
<1>4. Filling' /\ Numbered' /\ Behind'
  BY <1>1, <1>2, NumberTypes DEF RepairInv, TypeOK, Filling, Numbered, ValueAt, Behind, IsOld
<1>5. ASSUME Apart' PROVE Apart
  BY <1>5, WasApart DEF RepairInv
<1>6. Followed'
  BY <1>1, <1>2, <1>5 DEF RepairInv, Followed, Resetting
<1>7. Repaired'
  <2> SUFFICES ASSUME Apart', NEW r \in record, r.uuid = suuid
               PROVE  \E n \in 0..sseq : ReadAt(r, n)'
    BY <1>1, <1>2 DEF Repaired
  <2>1. PICK n \in 0..sseq : n = sseq
    BY TypeFacts DEF RepairInv
  <2>2. Content(r)' = ValueAt(n)' /\ r.seq <= n
    BY <1>1, <1>2, <1>5, <2>1 DEF Content, ValueAt, RepairInv, Numbered, Repaired
  <2>3. ASSUME NEW t \in Repairers, pc[t] \in InPlay, arg[t].uuid = suuid PROVE arg[t].seq <= n
    BY <2>1, <2>3 DEF RepairInv, Behind, IsOld
  <2>4. md.uuid = suuid /\ ~Resetting => md.seq <= n
    BY <1>5, <2>1 DEF RepairInv, Followed
  <2>5. "handler" \in Repairers /\ "init" \in Repairers /\ "seq" \in InPlay
    BY DEF Repairers, InPlay
  <2>6. ReadAt(r, n)'
    BY <1>1, <1>2, <2>2, <2>3, <2>4, <2>5 DEF ReadAt, Resetting
  <2> QED
    BY <2>6
<1> QED
  BY <1>3, <1>4, <1>6, <1>7 DEF RepairInv

LEMMA TryPublishInv ==
  ASSUME RepairInv, TryPublishReserved, raced' = (raced \/ Meeting)
  PROVE  RepairInv'
<1>1. /\ pc.reader = "publish" /\ got' = NoVal /\ got \in Values
      /\ UNCHANGED <<value, writes, sseq, suuid, inbox, making, md, arg, lost>>
      /\ Goto("reader", "idle")
  BY DEF TryPublishReserved, member, RepairInv, TypeOK, Filling
<1>2. /\ pc' \in Pcs /\ pc'.reader = "idle" /\ \A t \in Repairers : pc'[t] = pc[t]
      /\ pc'.handler = pc.handler /\ pc'.task = pc.task /\ pc'.init = pc.init
  BY <1>1, ReaderGoes DEF RepairInv, PcTypes
<1>3. CASE record = {}
  <2>1. record' = {}
    BY <1>3 DEF TryPublishReserved
  <2>2. TypeOK' /\ Filling' /\ Numbered' /\ Behind'
    BY <1>1, <1>2, <2>1 DEF RepairInv, TypeOK, Meeting, Filling, Numbered, ValueAt, Behind, IsOld
  <2>3. ASSUME Apart' PROVE Apart
    BY <2>3, WasApart DEF RepairInv
  <2>4. Followed' /\ Repaired'
    BY <1>1, <1>2, <2>1, <2>3 DEF RepairInv, Followed, Repaired, Resetting
  <2> QED
    BY <2>2, <2>4 DEF RepairInv
<1>4. CASE record # {}
  <2>1. PICK q \in Records : record = {q}
    BY <1>4 DEF RepairInv, TypeOK
  <2>2. PICK r : r = [q EXCEPT !.val = got] /\ record' = {r}
    BY <2>1 DEF TryPublishReserved
  <2>3. r \in Records /\ r.val = got /\ r.seq = q.seq /\ r.uuid = q.uuid
    BY <1>1, <2>1, <2>2 DEF Records
  <2>4. TypeOK'
    BY <1>1, <1>2, <2>2, <2>3 DEF RepairInv, TypeOK, Meeting
  <2>5. Filling' /\ Numbered' /\ Behind'
    BY <1>1, <1>2, <2>1, <2>2, <2>3, NumberTypes
       DEF RepairInv, Filling, Numbered, ValueAt, Behind, IsOld
  <2>6. ASSUME Apart' PROVE Apart
    BY <2>6, WasApart DEF RepairInv
  <2>7. Followed'
    BY <1>1, <1>2, <2>1, <2>2, <2>3, <2>6 DEF RepairInv, Followed, Resetting
  <2>8. Repaired'
    <3> SUFFICES ASSUME Apart', q.uuid = suuid
                 PROVE  \E n \in 0..sseq : ReadAt(r, n)'
      BY <1>1, <1>2, <2>2, <2>3 DEF Repaired
    <3>1. PICK n \in 0..sseq : ReadAt(q, n)
      BY <1>1, <2>1, <2>6 DEF RepairInv, Repaired, HasContent
    <3>2. Content(r)' = Content(q)
      BY <1>1, <1>2, <2>3 DEF Content
    <3>3. ReadAt(r, n)'
      BY <1>1, <1>2, <2>3, <3>1, <3>2 DEF ReadAt, Resetting, Repairing, ValueAt
    <3> QED
      BY <3>3
  <2> QED
    BY <2>4, <2>5, <2>7, <2>8 DEF RepairInv
<1> QED
  BY <1>3, <1>4

\* A repairer goes on; the reader and the other repairers stay where they are.
LEMMA RepairerGoes ==
  ASSUME TypeOK, NEW t \in Repairers, NEW l \in PcTypes[t], Goto(t, l)
  PROVE  /\ pc' \in Pcs /\ pc'[t] = l /\ pc'.reader = pc.reader
         /\ \A u \in Repairers \ {t} : pc'[u] = pc[u]
<1>1. t \in Procs /\ Repairers \ {t} \subseteq Procs \ {t} /\ "reader" \in Procs \ {t}
  BY DEF Procs, Repairers
<1> QED
  BY <1>1, GotoEffect DEF TypeOK

LEMMA HandleInv ==
  ASSUME RepairInv, Handle, raced' = (raced \/ Meeting)
  PROVE  RepairInv'
<1>1. /\ pc.handler = "idle" /\ inbox # <<>> /\ inbox' = Tail(inbox)
      /\ UNCHANGED <<value, writes, sseq, suuid, record, making, got, md, lost>>
      /\ Goto("handler", "inval")
  BY DEF Handle, cache
<1>2. PICK m \in Msgs : m = Head(inbox) /\ m = inbox[1] /\ 1 \in DOMAIN inbox
  BY <1>1 DEF RepairInv, TypeOK
<1>3. PICK a : /\ a = [NoArg EXCEPT !.uuid = m.uuid, !.seq = m.seq]
               /\ arg' = [arg EXCEPT !["handler"] = a]
  BY <1>2 DEF Handle
<1>4. a \in Args /\ a.uuid = m.uuid /\ a.seq = m.seq /\ a.via = FALSE /\ m.uuid > 0
  <2>1. m.uuid \in 0..MaxUUID /\ m.uuid > 0 /\ m.seq \in Seqs
    BY BoundsAssumption DEF Msgs
  <2> QED
    BY <1>3, <2>1, NumberTypes DEF NoArg, Args
<1>5. "handler" \in Repairers /\ "init" \in Repairers /\ "task" \in Repairers
  BY DEF Repairers
<1>6. /\ arg' \in [Repairers -> Args] /\ arg'["handler"] = a
      /\ \A u \in Repairers \ {"handler"} : arg'[u] = arg[u]
  BY <1>3, <1>4, <1>5, ArgEffect, TypeFacts DEF RepairInv
<1>7. /\ pc' \in Pcs /\ pc'["handler"] = "inval" /\ pc'.reader = pc.reader
      /\ \A u \in Repairers \ {"handler"} : pc'[u] = pc[u]
  BY <1>1, <1>5, RepairerGoes DEF RepairInv, PcTypes
<1>8. TypeOK'
  <2>1. inbox' \in Seq(Msgs)
    BY <1>1 DEF RepairInv, TypeOK
  <2> QED
    BY <1>1, <1>6, <1>7, <2>1 DEF RepairInv, TypeOK, Meeting, Args
<1>9. Filling' /\ Numbered'
  BY <1>1, <1>7 DEF RepairInv, Filling, Numbered, ValueAt
<1>10. Behind'
  <2>1. \A i \in DOMAIN inbox' : i + 1 \in DOMAIN inbox /\ inbox'[i] = inbox[i + 1]
    BY <1>1 DEF RepairInv, TypeOK
  <2>2. IsOld(m.uuid, m.seq)
    BY <1>2 DEF RepairInv, Behind
  <2> QED
    BY <1>1, <1>4, <1>6, <1>7, <2>1, <2>2 DEF RepairInv, Behind, IsOld, Repairers
<1>11. ASSUME Apart' PROVE Apart
  BY <1>11, WasApart DEF RepairInv
<1>12. Resetting' => Resetting
  BY <1>7 DEF Resetting
<1>13. Followed'
  BY <1>1, <1>6, <1>7, <1>11 DEF RepairInv, Followed, Resetting, Known
<1>14. Repaired'
  BY <1>1, <1>5, <1>6, <1>7, <1>11
     DEF RepairInv, Repaired, HasContent, ReadAt, Content, Resetting, Repairing, ValueAt, InPlay
<1> QED
  BY <1>8, <1>9, <1>10, <1>13, <1>14 DEF RepairInv

LEMMA HandleInvalidatesInv ==
  ASSUME RepairInv, HandleInvalidates, raced' = (raced \/ Meeting)
  PROVE  RepairInv'
<1>1. /\ pc.handler = "inval" /\ making = {} /\ record' = {}
      /\ UNCHANGED <<value, writes, sseq, suuid, inbox, making, got, md, arg, lost>>
      /\ Goto("handler", "uuid")
  BY DEF HandleInvalidates, member
<1>2. "handler" \in Repairers
  BY DEF Repairers
<1>3. /\ pc' \in Pcs /\ pc'["handler"] = "uuid" /\ pc'.reader = pc.reader
      /\ \A u \in Repairers \ {"handler"} : pc'[u] = pc[u]
  BY <1>1, <1>2, RepairerGoes DEF RepairInv, PcTypes
<1>4. TypeOK'
  BY <1>1, <1>3 DEF RepairInv, TypeOK, Meeting
<1>5. Filling' /\ Numbered'
  BY <1>1, <1>3 DEF RepairInv, Filling, Numbered, ValueAt
<1>6. Behind'
  BY <1>1, <1>2, <1>3 DEF RepairInv, Behind, IsOld, Repairers, InPlay
<1>7. ASSUME Apart' PROVE Apart
  BY <1>7, WasApart DEF RepairInv
<1>8. Followed' /\ Repaired'
  BY <1>1, <1>3, <1>7 DEF RepairInv, Followed, Repaired, Resetting, Known
<1> QED
  BY <1>4, <1>5, <1>6, <1>8 DEF RepairInv

-----------------------------------------------------------------------------
(* The steps that the handler and the task share *)

LEMMA BothTypes ==
  ASSUME NEW t \in {"handler", "task"}
  PROVE  /\ t \in Repairers
         /\ {"uuid", "reset", "resetStale", "seq", "missed", "idle"} \subseteq PcTypes[t]
  BY DEF Repairers, PcTypes

LEMMA CheckUUIDInv ==
  ASSUME RepairInv, NEW t \in {"handler", "task"}, CheckOrRepairUUID(t), raced' = (raced \/ Meeting)
  PROVE  RepairInv'
<1>1. t \in Repairers /\ pc[t] = "uuid"
  BY BothTypes DEF CheckOrRepairUUID
<1>2. UNCHANGED <<value, writes, sseq, suuid, inbox, record, making, got, arg, lost>>
  BY DEF CheckOrRepairUUID, member, cache
<1>3. PICK l \in {"seq", "reset"} : /\ Goto(t, l)
                                    /\ l = "seq" <=> md.uuid = arg[t].uuid
  BY DEF CheckOrRepairUUID
<1>4. /\ pc' \in Pcs /\ pc'[t] = l /\ pc'.reader = pc.reader
      /\ \A u \in Repairers \ {t} : pc'[u] = pc[u]
  BY <1>3, BothTypes, RepairerGoes DEF RepairInv
<1>5. arg[t].uuid \in 0..MaxUUID /\ arg[t].uuid > 0 /\ arg[t].uuid <= suuid
  BY <1>1, TypeFacts DEF RepairInv, Behind, IsOld, InPlay, Args
<1>6. /\ md' \in MetaData /\ md'.uuid = arg[t].uuid
      /\ md'.seq = md.seq /\ md'.stale = md.stale /\ md'.missed = md.missed
  BY <1>5, TypeFacts DEF RepairInv, MetaData, CheckOrRepairUUID
<1>7. TypeOK'
  BY <1>2, <1>4, <1>6 DEF RepairInv, TypeOK, Meeting, MetaData
<1>8. Filling' /\ Numbered'
  BY <1>2, <1>4 DEF RepairInv, Filling, Numbered, ValueAt
<1>9. Behind'
  BY <1>1, <1>2, <1>3, <1>4, <1>5, <1>6 DEF RepairInv, Behind, IsOld, InPlay, Repairers
<1>10. SUFFICES ASSUME Apart' PROVE Followed' /\ Repaired'
  BY <1>7, <1>8, <1>9 DEF RepairInv, Followed, Repaired
<1>11. Apart
  BY <1>10, WasApart DEF RepairInv
<1>12. CASE l = "seq"
  <2>1. md'.uuid = md.uuid /\ (Resetting' <=> Resetting)
    BY <1>1, <1>3, <1>4, <1>6, <1>12 DEF Resetting
  <2>2. Followed'
    BY <1>1, <1>2, <1>4, <1>6, <1>11, <1>12, <2>1 DEF RepairInv, Followed, Known
  <2>3. ASSUME NEW r \in record, NEW n \in 0..sseq, ReadAt(r, n) PROVE ReadAt(r, n)'
    BY <1>1, <1>2, <1>4, <1>6, <1>12, <2>1, <2>3
       DEF ReadAt, Content, Repairing, ValueAt, InPlay, Repairers
  <2> QED
    BY <1>2, <1>4, <1>11, <2>2, <2>3 DEF RepairInv, Repaired, HasContent
<1>13. CASE l = "reset"
  <2>1. Resetting' /\ pc.reader # "meta" /\ \A u \in Repairers \ {t} : ~Working(u)
    BY <1>1, <1>4, <1>10, <1>13 DEF Apart, Clash, Resetting, Working
  <2>2. making = {}
    BY <2>1 DEF RepairInv, Filling
  <2>3. \A u \in Repairers \ {t} : pc'[u] \notin Known /\ pc'[u] # "resetStale"
    BY <1>4, <2>1 DEF Working, Known
  <2>4. Followed'
    BY <1>2, <1>4, <1>5, <1>6, <1>13, <2>1, <2>2, <2>3, TypeFacts DEF RepairInv, Followed
  <2>5. ASSUME NEW r \in record, NEW n \in 0..sseq, ReadAt(r, n) PROVE ReadAt(r, n)'
    BY <1>1, <1>2, <1>4, <1>13, <2>1, <2>5 DEF ReadAt, Content, ValueAt, InPlay, Repairers
  <2> QED
    BY <1>2, <1>4, <1>11, <2>4, <2>5 DEF RepairInv, Repaired, HasContent
<1> QED
  BY <1>12, <1>13

LEMMA ResetSequenceInv ==
  ASSUME RepairInv, NEW t \in {"handler", "task"}, ResetSequence(t), raced' = (raced \/ Meeting)
  PROVE  RepairInv'
<1>1. t \in Repairers /\ pc[t] = "reset"
  BY BothTypes DEF ResetSequence
<1>2. UNCHANGED <<value, writes, sseq, suuid, inbox, record, making, got, arg, lost>>
  BY DEF ResetSequence, member, cache
<1>3. /\ pc' \in Pcs /\ pc'[t] = "resetStale" /\ pc'.reader = pc.reader
      /\ \A u \in Repairers \ {t} : pc'[u] = pc[u]
  BY BothTypes, RepairerGoes DEF RepairInv, ResetSequence
<1>4. /\ md' \in MetaData /\ md'.seq = 0
      /\ md'.uuid = md.uuid /\ md'.stale = md.stale /\ md'.missed = md.missed
  BY NumberTypes, TypeFacts DEF RepairInv, MetaData, ResetSequence
<1>5. TypeOK'
  BY <1>2, <1>3, <1>4 DEF RepairInv, TypeOK, Meeting, MetaData
<1>6. Filling' /\ Numbered'
  BY <1>2, <1>3 DEF RepairInv, Filling, Numbered, ValueAt
<1>7. Behind'
  BY <1>1, <1>2, <1>3, <1>4 DEF RepairInv, Behind, IsOld, InPlay, Repairers
<1>8. SUFFICES ASSUME Apart' PROVE Followed' /\ Repaired'
  BY <1>5, <1>6, <1>7 DEF RepairInv, Followed, Repaired
<1>9. Apart
  BY <1>8, WasApart DEF RepairInv
<1>10. Followed'
  BY <1>1, <1>2, <1>3, <1>4, <1>9, TypeFacts DEF RepairInv, Followed, Known
<1>11. ASSUME NEW r \in record, NEW n \in 0..sseq, ReadAt(r, n) PROVE ReadAt(r, n)'
  BY <1>1, <1>2, <1>3, <1>4, <1>11 DEF ReadAt, Content, ValueAt, InPlay, Repairers
<1> QED
  BY <1>2, <1>3, <1>9, <1>10, <1>11 DEF RepairInv, Repaired, HasContent

LEMMA ResetStaleInv ==
  ASSUME RepairInv, NEW t \in {"handler", "task"}, ResetStaleSequence(t), raced' = (raced \/ Meeting)
  PROVE  RepairInv'
<1>1. t \in Repairers /\ pc[t] = "resetStale"
  BY BothTypes DEF ResetStaleSequence
<1>2. UNCHANGED <<value, writes, sseq, suuid, inbox, record, making, got, arg, lost>>
  BY DEF ResetStaleSequence, member, cache
<1>3. /\ pc' \in Pcs /\ pc'[t] = "seq" /\ pc'.reader = pc.reader
      /\ \A u \in Repairers \ {t} : pc'[u] = pc[u]
  BY BothTypes, RepairerGoes DEF RepairInv, ResetStaleSequence
<1>4. /\ md' \in MetaData /\ md'.stale = 0
      /\ md'.uuid = md.uuid /\ md'.seq = md.seq /\ md'.missed = md.missed
  BY NumberTypes, TypeFacts DEF RepairInv, MetaData, ResetStaleSequence
<1>5. TypeOK'
  BY <1>2, <1>3, <1>4 DEF RepairInv, TypeOK, Meeting, MetaData
<1>6. Filling' /\ Numbered'
  BY <1>2, <1>3 DEF RepairInv, Filling, Numbered, ValueAt
<1>7. Behind'
  BY <1>1, <1>2, <1>3, <1>4 DEF RepairInv, Behind, IsOld, InPlay, Repairers
<1>8. SUFFICES ASSUME Apart' PROVE Followed' /\ Repaired'
  BY <1>5, <1>6, <1>7 DEF RepairInv, Followed, Repaired
<1>9. Apart
  BY <1>8, WasApart DEF RepairInv
<1>10. Resetting' <=> Resetting
  BY <1>1, <1>3 DEF Resetting
<1>11. Followed' /\ md.seq = 0
  BY <1>1, <1>2, <1>3, <1>4, <1>9, <1>10 DEF RepairInv, Followed, Known
<1>12. ASSUME NEW r \in record, NEW n \in 0..sseq, ReadAt(r, n) PROVE ReadAt(r, n)'
  BY <1>1, <1>2, <1>3, <1>4, <1>11, <1>12 DEF ReadAt, Content, ValueAt, InPlay, Repairers
<1> QED
  BY <1>2, <1>3, <1>9, <1>11, <1>12 DEF RepairInv, Repaired, HasContent

LEMMA CheckSequenceInv ==
  ASSUME RepairInv, NEW t \in {"handler", "task"}, CheckOrRepairSequence(t), raced' = (raced \/ Meeting)
  PROVE  RepairInv'
<1>1. t \in Repairers /\ pc[t] = "seq"
  BY BothTypes DEF CheckOrRepairSequence
<1>2. UNCHANGED <<value, writes, sseq, suuid, inbox, record, making, got, lost>>
  BY DEF CheckOrRepairSequence, member, cache
<1>3. /\ md.seq \in Nat /\ arg[t].seq \in Seqs /\ arg[t].seq \in Nat /\ arg[t].via \in BOOLEAN
      /\ (arg[t].uuid = suuid => arg[t].seq <= sseq) /\ (arg[t].via <=> t = "task")
  BY <1>1, TypeFacts DEF RepairInv, Behind, IsOld, InPlay, Args
<1>4. PICK l \in {"idle", "missed"}, a \in Args :
        /\ Goto(t, l) /\ arg' = [arg EXCEPT ![t] = a]
        /\ \/ md' = md
           \/ /\ md.seq < arg[t].seq /\ md' = [md EXCEPT !.seq = arg[t].seq]
              /\ t = "task" => l = "missed" /\ a.seq > 0
  <2>1. CASE md.seq >= arg[t].seq
    BY <2>1, NoArgType DEF CheckOrRepairSequence
  <2>2. CASE md.seq < arg[t].seq
    <3>1. MissCount(t) \in Nat /\ MissCount(t) <= arg[t].seq /\ (t = "task" => MissCount(t) > 0)
      BY <1>3, <2>2 DEF MissCount
    <3>2. PICK a : a = [NoArg EXCEPT !.seq = MissCount(t)]
      OBVIOUS
    <3>3. a \in Args /\ a.seq = MissCount(t)
      <4>1. MissCount(t) \in Seqs
        BY <1>3, <3>1, NumberTypes
      <4> QED
        BY <3>2, <4>1, NoArgType DEF NoArg, Args
    <3>4. /\ md' = [md EXCEPT !.seq = arg[t].seq] /\ arg' = [arg EXCEPT ![t] = a]
          /\ Goto(t, IF MissCount(t) > 0 THEN "missed" ELSE "idle")
      BY <1>3, <2>2, <3>2 DEF CheckOrRepairSequence
    <3>5. PICK l \in {"idle", "missed"} : Goto(t, l) /\ (MissCount(t) > 0 => l = "missed")
      BY <3>4
    <3> QED
      BY <2>2, <3>1, <3>3, <3>4, <3>5
  <2> QED
    BY <1>3, <2>1, <2>2
<1>5. /\ pc' \in Pcs /\ pc'[t] = l /\ pc'.reader = pc.reader
      /\ \A u \in Repairers \ {t} : pc'[u] = pc[u]
  BY <1>4, BothTypes, RepairerGoes DEF RepairInv
<1>6. /\ arg' \in [Repairers -> Args] /\ arg'[t] = a
      /\ \A u \in Repairers \ {t} : arg'[u] = arg[u]
  BY <1>1, <1>4, ArgEffect, TypeFacts DEF RepairInv
<1>7. /\ md' \in MetaData /\ md'.uuid = md.uuid /\ md'.stale = md.stale /\ md'.missed = md.missed
      /\ \/ md'.seq = md.seq
         \/ /\ md.seq < arg[t].seq /\ md'.seq = arg[t].seq
            /\ t = "task" => l = "missed" /\ a.seq > 0
  BY <1>3, <1>4, TypeFacts DEF RepairInv, MetaData
<1>8. TypeOK'
  BY <1>2, <1>5, <1>6, <1>7 DEF RepairInv, TypeOK, Meeting, MetaData, Args
<1>9. Filling' /\ Numbered'
  BY <1>2, <1>5 DEF RepairInv, Filling, Numbered, ValueAt
<1>10. Behind'
  BY <1>1, <1>2, <1>5, <1>6, <1>7 DEF RepairInv, Behind, IsOld, InPlay, Repairers
<1>11. SUFFICES ASSUME Apart' PROVE Followed' /\ Repaired'
  BY <1>8, <1>9, <1>10 DEF RepairInv, Followed, Repaired
<1>12. Apart /\ md.uuid = arg[t].uuid /\ md.uuid > 0
  BY <1>1, <1>11, WasApart DEF RepairInv, Followed, Known, Behind, InPlay
<1>13. Resetting' <=> Resetting
  BY <1>1, <1>5 DEF Resetting
<1>14. \A u \in Repairers : pc[u] # "resetStale"
  BY <1>1, <1>12 DEF Apart, Clash, Working
<1>15. Followed'
  BY <1>1, <1>2, <1>3, <1>5, <1>6, <1>7, <1>12, <1>13, <1>14, TypeFacts DEF RepairInv, Followed, Known
<1>16. ASSUME NEW r \in record, NEW n \in 0..sseq, ReadAt(r, n) PROVE ReadAt(r, n)'
  <2>1. CASE t = "handler"
    BY <1>1, <1>2, <1>3, <1>5, <1>6, <1>7, <1>12, <1>13, <1>16, <2>1
       DEF ReadAt, Content, ValueAt, Repairing, InPlay, Repairers
  <2>2. CASE t = "task"
    BY <1>1, <1>2, <1>3, <1>5, <1>6, <1>7, <1>12, <1>13, <1>16, <2>2
       DEF ReadAt, Content, ValueAt, Repairing, InPlay, Repairers
  <2> QED
    BY <2>1, <2>2
<1> QED
  BY <1>2, <1>5, <1>12, <1>15, <1>16 DEF RepairInv, Repaired, HasContent

LEMMA AddMissedInv ==
  ASSUME RepairInv, NEW t \in {"handler", "task"}, AddMissed(t), raced' = (raced \/ Meeting)
  PROVE  RepairInv'
<1>1. t \in Repairers /\ pc[t] = "missed"
  BY BothTypes DEF AddMissed
<1>2. UNCHANGED <<value, writes, sseq, suuid, inbox, record, making, got, lost>>
  BY DEF AddMissed, member, cache
<1>3. /\ pc' \in Pcs /\ pc'[t] = "idle" /\ pc'.reader = pc.reader
      /\ \A u \in Repairers \ {t} : pc'[u] = pc[u]
  BY BothTypes, RepairerGoes DEF RepairInv, AddMissed
<1>4. /\ arg' \in [Repairers -> Args] /\ arg'[t] = NoArg
      /\ \A u \in Repairers \ {t} : arg'[u] = arg[u]
  BY <1>1, ArgEffect, NoArgType, TypeFacts DEF RepairInv, AddMissed
<1>5. /\ md' \in MetaData /\ md'.uuid = md.uuid /\ md'.stale = md.stale /\ md'.seq = md.seq
      /\ md'.missed = md.missed + arg[t].seq /\ md.missed \in Nat /\ arg[t].seq \in Nat
  BY <1>1, TypeFacts DEF RepairInv, MetaData, AddMissed
<1>6. TypeOK'
  BY <1>2, <1>3, <1>4, <1>5 DEF RepairInv, TypeOK, Meeting, MetaData, Args
<1>7. Filling' /\ Numbered'
  BY <1>2, <1>3 DEF RepairInv, Filling, Numbered, ValueAt
<1>8. Behind'
  BY <1>1, <1>2, <1>3, <1>4, <1>5 DEF RepairInv, Behind, IsOld, InPlay, Repairers
<1>9. SUFFICES ASSUME Apart' PROVE Followed' /\ Repaired'
  BY <1>6, <1>7, <1>8 DEF RepairInv, Followed, Repaired
<1>10. Apart
  BY <1>9, WasApart DEF RepairInv
<1>11. Resetting' <=> Resetting
  BY <1>1, <1>3 DEF Resetting
<1>12. Followed'
  BY <1>1, <1>2, <1>3, <1>4, <1>5, <1>10, <1>11 DEF RepairInv, Followed, Known
<1>13. ASSUME NEW r \in record, NEW n \in 0..sseq, ReadAt(r, n) PROVE ReadAt(r, n)'
  <2>1. Repairing(r) => Repairing(r)'
    BY <1>1, <1>3, <1>4, <1>5, TypeFacts DEF Repairing, Repairers, RepairInv
  <2> QED
    BY <1>1, <1>2, <1>3, <1>4, <1>5, <1>11, <1>13, <2>1 DEF ReadAt, Content, ValueAt, InPlay, Repairers
<1> QED
  BY <1>2, <1>3, <1>10, <1>12, <1>13 DEF RepairInv, Repaired, HasContent

-----------------------------------------------------------------------------
(* The initialization in the background *)

\* The metadata that was fetched.
LEMMA FetchedEffect ==
  ASSUME RepairInv, NEW t \in Repairers, NEW via \in BOOLEAN, Fetched(t, via)
  PROVE  /\ arg' \in [Repairers -> Args]
         /\ arg'[t].uuid = suuid /\ arg'[t].seq = sseq /\ arg'[t].via = via
         /\ \A u \in Repairers \ {t} : arg'[u] = arg[u]
<1>1. PICK a : a = [NoArg EXCEPT !.uuid = suuid, !.seq = sseq, !.via = via]
  OBVIOUS
<1>2. suuid \in 0..MaxUUID /\ sseq \in Seqs
  BY NumberTypes DEF RepairInv, TypeOK
<1>3. a \in Args /\ a.uuid = suuid /\ a.seq = sseq /\ a.via = via
  BY <1>1, <1>2, NumberTypes DEF NoArg, Args
<1> QED
  BY <1>1, <1>3, ArgEffect, TypeFacts DEF RepairInv, Fetched

LEMMA InitFetchInv ==
  ASSUME RepairInv, InitFetch, raced' = (raced \/ Meeting)
  PROVE  RepairInv'
<1>1. "init" \in Repairers /\ pc.init = "fetch"
  BY DEF Repairers, InitFetch
<1>2. UNCHANGED <<value, writes, sseq, suuid, inbox, record, making, got, md, lost>>
  BY DEF InitFetch, member, cache
<1>3. /\ pc' \in Pcs /\ pc'["init"] = "uuid" /\ pc'.reader = pc.reader
      /\ \A u \in Repairers \ {"init"} : pc'[u] = pc[u]
  BY <1>1, RepairerGoes DEF RepairInv, InitFetch, PcTypes
<1>4. /\ arg' \in [Repairers -> Args]
      /\ arg'["init"].uuid = suuid /\ arg'["init"].seq = sseq /\ arg'["init"].via = FALSE
      /\ \A u \in Repairers \ {"init"} : arg'[u] = arg[u]
  BY <1>1, FetchedEffect DEF InitFetch
<1>5. TypeOK'
  BY <1>2, <1>3, <1>4 DEF RepairInv, TypeOK, Meeting, Args
<1>6. Filling' /\ Numbered'
  BY <1>2, <1>3 DEF RepairInv, Filling, Numbered, ValueAt
<1>7. Behind'
  BY <1>1, <1>2, <1>3, <1>4, TypeFacts DEF RepairInv, Behind, IsOld, InPlay, Repairers
<1>8. SUFFICES ASSUME Apart' PROVE Followed' /\ Repaired'
  BY <1>5, <1>6, <1>7 DEF RepairInv, Followed, Repaired
<1>9. Apart
  BY <1>8, WasApart DEF RepairInv
<1>10. Resetting' <=> Resetting
  BY <1>1, <1>3 DEF Resetting
<1>11. Followed'
  BY <1>1, <1>2, <1>3, <1>4, <1>9, <1>10 DEF RepairInv, Followed, Known
<1>12. ASSUME NEW r \in record, NEW n \in 0..sseq, ReadAt(r, n) PROVE ReadAt(r, n)'
  BY <1>1, <1>2, <1>3, <1>4, <1>10, <1>12 DEF ReadAt, Content, ValueAt, Repairing, InPlay, Repairers
<1> QED
  BY <1>2, <1>3, <1>9, <1>11, <1>12 DEF RepairInv, Repaired, HasContent

LEMMA InitGivenUpInv ==
  ASSUME RepairInv, InitGivenUp, raced' = (raced \/ Meeting)
  PROVE  RepairInv'
<1>1. "init" \in Repairers /\ pc.init = "fetch"
  BY DEF Repairers, InitGivenUp
<1>2. UNCHANGED <<value, writes, sseq, suuid, inbox, record, making, got, md, arg, lost>>
  BY DEF InitGivenUp, member, cache
<1>3. /\ pc' \in Pcs /\ pc'["init"] = "idle" /\ pc'.reader = pc.reader
      /\ \A u \in Repairers \ {"init"} : pc'[u] = pc[u]
  BY <1>1, RepairerGoes DEF RepairInv, InitGivenUp, PcTypes
<1>4. TypeOK'
  BY <1>2, <1>3 DEF RepairInv, TypeOK, Meeting
<1>5. Filling' /\ Numbered'
  BY <1>2, <1>3 DEF RepairInv, Filling, Numbered, ValueAt
<1>6. Behind'
  BY <1>1, <1>2, <1>3 DEF RepairInv, Behind, IsOld, InPlay, Repairers
<1>7. SUFFICES ASSUME Apart' PROVE Followed' /\ Repaired'
  BY <1>4, <1>5, <1>6 DEF RepairInv, Followed, Repaired
<1>8. Apart
  BY <1>7, WasApart DEF RepairInv
<1>9. Resetting' <=> Resetting
  BY <1>1, <1>3 DEF Resetting
<1>10. Followed'
  BY <1>1, <1>2, <1>3, <1>8, <1>9 DEF RepairInv, Followed, Known
<1>11. ASSUME NEW r \in record, NEW n \in 0..sseq, ReadAt(r, n) PROVE ReadAt(r, n)'
  BY <1>1, <1>2, <1>3, <1>9, <1>11 DEF ReadAt, Content, ValueAt, Repairing, InPlay, Repairers
<1> QED
  BY <1>2, <1>3, <1>8, <1>10, <1>11 DEF RepairInv, Repaired, HasContent

LEMMA InitUUIDInv ==
  ASSUME RepairInv, InitUUID, raced' = (raced \/ Meeting)
  PROVE  RepairInv'
<1>1. "init" \in Repairers /\ pc.init = "uuid"
  BY DEF Repairers, InitUUID
<1>2. UNCHANGED <<value, writes, sseq, suuid, inbox, record, making, got, arg, lost>>
  BY DEF InitUUID, member, cache
<1>3. /\ pc' \in Pcs /\ pc'["init"] = "seq" /\ pc'.reader = pc.reader
      /\ \A u \in Repairers \ {"init"} : pc'[u] = pc[u]
  BY <1>1, RepairerGoes DEF RepairInv, InitUUID, PcTypes
<1>4. arg["init"].uuid \in 0..MaxUUID /\ arg["init"].uuid > 0 /\ arg["init"].uuid <= suuid
  BY <1>1, TypeFacts DEF RepairInv, Behind, IsOld, InPlay, Args
<1>5. /\ md' \in MetaData /\ md'.uuid = arg["init"].uuid
      /\ md'.seq = md.seq /\ md'.stale = md.stale /\ md'.missed = md.missed
  BY <1>4, TypeFacts DEF RepairInv, MetaData, InitUUID
<1>6. TypeOK'
  BY <1>2, <1>3, <1>5 DEF RepairInv, TypeOK, Meeting, MetaData
<1>7. Filling' /\ Numbered'
  BY <1>2, <1>3 DEF RepairInv, Filling, Numbered, ValueAt
<1>8. Behind'
  BY <1>1, <1>2, <1>3, <1>4, <1>5 DEF RepairInv, Behind, IsOld, InPlay, Repairers
<1>9. SUFFICES ASSUME Apart' PROVE Followed' /\ Repaired'
  BY <1>6, <1>7, <1>8 DEF RepairInv, Followed, Repaired
<1>10. /\ Apart /\ md.uuid = 0 /\ md.seq = 0
       /\ \A r \in record : r.uuid = 0
       /\ \A r \in making : r.seq = 0
  BY <1>1, <1>9, WasApart DEF RepairInv, Followed
<1>11. \A u \in Repairers : pc[u] \notin Known
  <2>1. Known \subseteq InPlay
    BY DEF Known, InPlay
  <2> QED
    BY <1>10, <2>1, TypeFacts DEF RepairInv, Followed, Behind
<1>12. Followed'
  BY <1>1, <1>2, <1>3, <1>4, <1>5, <1>10, <1>11, TypeFacts DEF RepairInv, Followed, Known
<1>13. Repaired'
  BY <1>2, <1>10, TypeFacts DEF RepairInv, Repaired
<1> QED
  BY <1>12, <1>13

LEMMA InitSequenceInv ==
  ASSUME RepairInv, InitSequence, raced' = (raced \/ Meeting)
  PROVE  RepairInv'
<1>1. "init" \in Repairers /\ pc.init = "seq"
  BY DEF Repairers, InitSequence
<1>2. UNCHANGED <<value, writes, sseq, suuid, inbox, record, making, got, lost>>
  BY DEF InitSequence, member, cache
<1>3. /\ pc' \in Pcs /\ pc'["init"] = "idle" /\ pc'.reader = pc.reader
      /\ \A u \in Repairers \ {"init"} : pc'[u] = pc[u]
  BY <1>1, RepairerGoes DEF RepairInv, InitSequence, PcTypes
<1>4. /\ arg' \in [Repairers -> Args] /\ arg'["init"] = NoArg
      /\ \A u \in Repairers \ {"init"} : arg'[u] = arg[u]
  BY <1>1, ArgEffect, NoArgType, TypeFacts DEF RepairInv, InitSequence
<1>5. /\ arg["init"].seq \in Seqs /\ arg["init"].uuid > 0
      /\ arg["init"].uuid = suuid => arg["init"].seq <= sseq
  BY <1>1, TypeFacts DEF RepairInv, Behind, IsOld, InPlay, Args
<1>6. /\ md' \in MetaData /\ md'.seq = arg["init"].seq
      /\ md'.uuid = md.uuid /\ md'.stale = md.stale /\ md'.missed = md.missed
  BY <1>5, TypeFacts DEF RepairInv, MetaData, InitSequence
<1>7. TypeOK'
  BY <1>2, <1>3, <1>4, <1>6 DEF RepairInv, TypeOK, Meeting, MetaData, Args
<1>8. Filling' /\ Numbered'
  BY <1>2, <1>3 DEF RepairInv, Filling, Numbered, ValueAt
<1>9. Behind'
  BY <1>1, <1>2, <1>3, <1>4, <1>6 DEF RepairInv, Behind, IsOld, InPlay, Repairers
<1>10. SUFFICES ASSUME Apart' PROVE Followed' /\ Repaired'
  BY <1>7, <1>8, <1>9 DEF RepairInv, Followed, Repaired
<1>11. Apart /\ md.uuid = arg["init"].uuid
  BY <1>1, <1>10, WasApart DEF RepairInv, Followed, Known
<1>12. Resetting' <=> Resetting
  BY <1>1, <1>3 DEF Resetting
<1>13. \A u \in Repairers : pc[u] # "resetStale"
  BY <1>1, <1>11 DEF Apart, Clash, Working
<1>14. Followed'
  BY <1>1, <1>2, <1>3, <1>4, <1>5, <1>6, <1>11, <1>12, <1>13, TypeFacts DEF RepairInv, Followed, Known
<1>15. ASSUME NEW r \in record, NEW n \in 0..sseq, ReadAt(r, n) PROVE ReadAt(r, n)'
  BY <1>1, <1>2, <1>3, <1>4, <1>6, <1>11, <1>12, <1>15 DEF ReadAt, Content, ValueAt, InPlay, Repairers
<1> QED
  BY <1>2, <1>3, <1>11, <1>14, <1>15 DEF RepairInv, Repaired, HasContent

-----------------------------------------------------------------------------
(* The task: gaps and anti-entropy *)

LEMMA FixGapsInv ==
  ASSUME RepairInv, FixSequenceGaps, raced' = (raced \/ Meeting)
  PROVE  RepairInv'
<1>1. /\ "task" \in Repairers /\ pc.task = "idle"
      /\ UNCHANGED <<value, writes, sseq, suuid, inbox, record, making, got, arg, lost>>
  BY DEF Repairers, FixSequenceGaps, member, cache
<1>2. PICK l \in {"gaps", "fetch"} :
        /\ Goto("task", l)
        /\ IF l = "gaps" THEN md' = [md EXCEPT !.missed = 0] ELSE md' = md
  BY DEF FixSequenceGaps
<1>3. /\ pc' \in Pcs /\ pc'["task"] = l /\ pc'.reader = pc.reader
      /\ \A u \in Repairers \ {"task"} : pc'[u] = pc[u]
  BY <1>1, <1>2, RepairerGoes DEF RepairInv, PcTypes
<1>4. arg' \in [Repairers -> Args] /\ \A u \in Repairers : arg'[u] = arg[u]
  BY <1>1, TypeFacts DEF RepairInv
<1>5. /\ md' \in MetaData /\ md'.uuid = md.uuid /\ md'.seq = md.seq
      /\ md'.stale = md.stale /\ (l = "gaps" \/ md'.missed = md.missed)
  BY <1>2, TypeFacts DEF RepairInv, MetaData
<1>6. TypeOK'
  BY <1>1, <1>3, <1>4, <1>5 DEF RepairInv, TypeOK, Meeting, MetaData, Args
<1>7. Filling' /\ Numbered'
  BY <1>1, <1>3 DEF RepairInv, Filling, Numbered, ValueAt
<1>8. Behind'
  BY <1>1, <1>2, <1>3, <1>4, <1>5, TypeFacts DEF RepairInv, Behind, IsOld, InPlay, Repairers
<1>9. SUFFICES ASSUME Apart' PROVE Followed' /\ Repaired'
  BY <1>6, <1>7, <1>8 DEF RepairInv, Followed, Repaired
<1>10. Apart
  BY <1>9, WasApart DEF RepairInv
<1>11. Resetting' <=> Resetting
  BY <1>1, <1>2, <1>3 DEF Resetting
<1>12. Followed'
  BY <1>1, <1>2, <1>3, <1>4, <1>5, <1>10, <1>11 DEF RepairInv, Followed, Known
<1>13. ASSUME NEW r \in record, NEW n \in 0..sseq, ReadAt(r, n) PROVE ReadAt(r, n)'
  <2>1. r.seq <= n /\ r.seq \in Nat
    BY <1>13, TypeFacts DEF ReadAt, RepairInv
  <2>2. md.seq <= n \/ Repairing(r) => md.seq <= n \/ Repairing(r)'
    BY <1>1, <1>2, <1>3, <1>4, <1>5, <2>1, TypeFacts DEF Repairing, RepairInv
  <2> QED
    BY <1>1, <1>2, <1>3, <1>4, <1>5, <1>11, <1>13, <2>2 DEF ReadAt, Content, ValueAt, InPlay, Repairers
<1> QED
  BY <1>1, <1>3, <1>10, <1>12, <1>13 DEF RepairInv, Repaired, HasContent

LEMMA ReadSequenceInv ==
  ASSUME RepairInv, ReadSequence, raced' = (raced \/ Meeting)
  PROVE  RepairInv'
<1>1. /\ "task" \in Repairers /\ pc.task = "gaps"
      /\ UNCHANGED <<value, writes, sseq, suuid, inbox, record, making, got, md, lost>>
  BY DEF Repairers, ReadSequence, member, cache
<1>2. PICK a \in Args : /\ arg' = [arg EXCEPT !["task"] = a] /\ a.seq = md.seq
  <2>1. PICK a : a = [NoArg EXCEPT !.seq = md.seq]
    OBVIOUS
  <2>2. md.seq \in Seqs
    BY TypeFacts DEF RepairInv, MetaData
  <2>3. a \in Args /\ a.seq = md.seq
    BY <2>1, <2>2, NoArgType DEF NoArg, Args
  <2> QED
    BY <2>1, <2>3 DEF ReadSequence
<1>3. /\ pc' \in Pcs /\ pc'["task"] = "stale" /\ pc'.reader = pc.reader
      /\ \A u \in Repairers \ {"task"} : pc'[u] = pc[u]
  BY <1>1, RepairerGoes DEF RepairInv, PcTypes, ReadSequence
<1>4. /\ arg' \in [Repairers -> Args] /\ arg'["task"] = a
      /\ \A u \in Repairers \ {"task"} : arg'[u] = arg[u]
  BY <1>1, <1>2, ArgEffect, TypeFacts DEF RepairInv
<1>5. /\ md' \in MetaData /\ md'.uuid = md.uuid /\ md'.seq = md.seq
      /\ md'.stale = md.stale /\ md'.missed = md.missed
  BY <1>1, TypeFacts DEF RepairInv
<1>6. TypeOK'
  BY <1>1, <1>3, <1>4, <1>5 DEF RepairInv, TypeOK, Meeting, MetaData, Args
<1>7. Filling' /\ Numbered'
  BY <1>1, <1>3 DEF RepairInv, Filling, Numbered, ValueAt
<1>8. Behind'
  BY <1>1, <1>2, <1>3, <1>4, <1>5, TypeFacts DEF RepairInv, Behind, IsOld, InPlay, Repairers
<1>9. SUFFICES ASSUME Apart' PROVE Followed' /\ Repaired'
  BY <1>6, <1>7, <1>8 DEF RepairInv, Followed, Repaired
<1>10. Apart
  BY <1>9, WasApart DEF RepairInv
<1>11. Resetting' <=> Resetting
  BY <1>1, <1>2, <1>3 DEF Resetting
<1>12. Followed'
  BY <1>1, <1>2, <1>3, <1>4, <1>5, <1>10, <1>11 DEF RepairInv, Followed, Known
<1>13. ASSUME NEW r \in record, NEW n \in 0..sseq, ReadAt(r, n) PROVE ReadAt(r, n)'
  <2>1. r.seq <= n /\ r.seq \in Nat
    BY <1>13, TypeFacts DEF ReadAt, RepairInv
  <2>2. md.seq <= n \/ Repairing(r) => md.seq <= n \/ Repairing(r)'
    BY <1>1, <1>2, <1>3, <1>4, <1>5, <2>1, TypeFacts DEF Repairing, RepairInv
  <2> QED
    BY <1>1, <1>2, <1>3, <1>4, <1>5, <1>11, <1>13, <2>2 DEF ReadAt, Content, ValueAt, InPlay, Repairers
<1> QED
  BY <1>1, <1>3, <1>10, <1>12, <1>13 DEF RepairInv, Repaired, HasContent

LEMMA ReadStaleInv ==
  ASSUME RepairInv, ReadStaleSequence, raced' = (raced \/ Meeting)
  PROVE  RepairInv'
<1>1. /\ "task" \in Repairers /\ pc.task = "stale"
      /\ UNCHANGED <<value, writes, sseq, suuid, inbox, record, making, got, md, lost>>
  BY DEF Repairers, ReadStaleSequence, member, cache
<1>2. PICK a \in Args, l \in {"fetch", "cas"} :
        /\ arg' = [arg EXCEPT !["task"] = a] /\ Goto("task", l)
        /\ a.seq = arg["task"].seq /\ a.stale = md.stale
        /\ (l = "cas" => md.stale < a.seq) /\ (l = "fetch" => md.stale >= a.seq)
  <2>1. PICK a : a = [arg["task"] EXCEPT !.stale = md.stale]
    OBVIOUS
  <2>2. md.stale \in Seqs /\ arg["task"] \in Args
    BY <1>1, TypeFacts DEF RepairInv, MetaData
  <2>3. a \in Args /\ a.seq = arg["task"].seq /\ a.stale = md.stale
    BY <2>1, <2>2 DEF Args
  <2>4. arg' = [arg EXCEPT !["task"] = a]
    BY <2>1 DEF ReadStaleSequence
  <2>5. PICK l \in {"fetch", "cas"} :
          Goto("task", l) /\ (l = "fetch" <=> md.stale >= arg["task"].seq)
    BY DEF ReadStaleSequence
  <2>6. arg["task"].seq \in Nat /\ md.stale \in Nat
    BY <1>1, TypeFacts DEF RepairInv
  <2>7. (l = "cas" => md.stale < a.seq) /\ (l = "fetch" => md.stale >= a.seq)
    BY <2>3, <2>5, <2>6
  <2>8. Goto("task", l)
    BY <2>5
  <2> QED
    BY <2>3, <2>4, <2>7, <2>8
<1>3. /\ pc' \in Pcs /\ pc'["task"] = l /\ pc'.reader = pc.reader
      /\ \A u \in Repairers \ {"task"} : pc'[u] = pc[u]
  BY <1>1, <1>2, RepairerGoes DEF RepairInv, PcTypes
<1>4. /\ arg' \in [Repairers -> Args] /\ arg'["task"] = a
      /\ \A u \in Repairers \ {"task"} : arg'[u] = arg[u]
  BY <1>1, <1>2, ArgEffect, TypeFacts DEF RepairInv
<1>5. /\ md' \in MetaData /\ md'.uuid = md.uuid /\ md'.seq = md.seq
      /\ md'.stale = md.stale /\ md'.missed = md.missed
  BY <1>1, TypeFacts DEF RepairInv
<1>6. TypeOK'
  BY <1>1, <1>3, <1>4, <1>5 DEF RepairInv, TypeOK, Meeting, MetaData, Args
<1>7. Filling' /\ Numbered'
  BY <1>1, <1>3 DEF RepairInv, Filling, Numbered, ValueAt
<1>8. Behind'
  BY <1>1, <1>2, <1>3, <1>4, <1>5, TypeFacts DEF RepairInv, Behind, IsOld, InPlay, Repairers
<1>9. SUFFICES ASSUME Apart' PROVE Followed' /\ Repaired'
  BY <1>6, <1>7, <1>8 DEF RepairInv, Followed, Repaired
<1>10. Apart
  BY <1>9, WasApart DEF RepairInv
<1>11. Resetting' <=> Resetting
  BY <1>1, <1>2, <1>3 DEF Resetting
<1>12. Followed'
  BY <1>1, <1>2, <1>3, <1>4, <1>5, <1>10, <1>11 DEF RepairInv, Followed, Known
<1>13. ASSUME NEW r \in record, NEW n \in 0..sseq, ReadAt(r, n) PROVE ReadAt(r, n)'
  <2>1. r.seq <= n /\ r.seq \in Nat
    BY <1>13, TypeFacts DEF ReadAt, RepairInv
  <2>2. md.seq <= n \/ Repairing(r) => md.seq <= n \/ Repairing(r)'
    BY <1>1, <1>2, <1>3, <1>4, <1>5, <2>1, TypeFacts DEF Repairing, RepairInv
  <2> QED
    BY <1>1, <1>2, <1>3, <1>4, <1>5, <1>11, <1>13, <2>2 DEF ReadAt, Content, ValueAt, InPlay, Repairers
<1> QED
  BY <1>1, <1>3, <1>10, <1>12, <1>13 DEF RepairInv, Repaired, HasContent

LEMMA CASInv ==
  ASSUME RepairInv, CASStaleSequence, raced' = (raced \/ Meeting)
  PROVE  RepairInv'
<1>1. /\ "task" \in Repairers /\ pc.task = "cas"
      /\ UNCHANGED <<value, writes, sseq, suuid, inbox, record, making, got, arg, lost>>
  BY DEF Repairers, CASStaleSequence, member, cache
<1>2. PICK l \in {"fetch", "gaps"} :
        /\ Goto("task", l)
        /\ IF l = "fetch" THEN md.stale < arg["task"].seq /\ md' = [md EXCEPT !.stale = arg["task"].seq]
                          ELSE md' = md
  BY <1>1 DEF CASStaleSequence, RepairInv, Behind
<1>3. /\ pc' \in Pcs /\ pc'["task"] = l /\ pc'.reader = pc.reader
      /\ \A u \in Repairers \ {"task"} : pc'[u] = pc[u]
  BY <1>1, <1>2, RepairerGoes DEF RepairInv, PcTypes
<1>4. arg' \in [Repairers -> Args] /\ \A u \in Repairers : arg'[u] = arg[u]
  BY <1>1, TypeFacts DEF RepairInv
<1>5. /\ md' \in MetaData /\ md'.uuid = md.uuid /\ md'.seq = md.seq /\ md'.missed = md.missed
      /\ IF l = "fetch" THEN md.stale < arg["task"].seq /\ md'.stale = arg["task"].seq
                        ELSE md'.stale = md.stale
  <2>1. arg["task"].seq \in Seqs
    BY <1>1, TypeFacts DEF RepairInv, Args
  <2> QED
    BY <1>2, <2>1, TypeFacts DEF RepairInv, MetaData
<1>6. TypeOK'
  BY <1>1, <1>3, <1>4, <1>5 DEF RepairInv, TypeOK, Meeting, MetaData, Args
<1>7. Filling' /\ Numbered'
  BY <1>1, <1>3 DEF RepairInv, Filling, Numbered, ValueAt
<1>8. Behind'
  BY <1>1, <1>2, <1>3, <1>4, <1>5, TypeFacts DEF RepairInv, Behind, IsOld, InPlay, Repairers
<1>9. SUFFICES ASSUME Apart' PROVE Followed' /\ Repaired'
  BY <1>6, <1>7, <1>8 DEF RepairInv, Followed, Repaired
<1>10. Apart
  BY <1>9, WasApart DEF RepairInv
<1>11. Resetting' <=> Resetting
  BY <1>1, <1>2, <1>3 DEF Resetting
<1>12. Followed'
  BY <1>1, <1>2, <1>3, <1>4, <1>5, <1>10, <1>11 DEF RepairInv, Followed, Known
<1>13. ASSUME NEW r \in record, NEW n \in 0..sseq, ReadAt(r, n) PROVE ReadAt(r, n)'
  <2>1. r.seq <= n /\ r.seq \in Nat
    BY <1>13, TypeFacts DEF ReadAt, RepairInv
  <2>2. md.seq <= n \/ Repairing(r) => md.seq <= n \/ Repairing(r)'
    BY <1>1, <1>2, <1>3, <1>4, <1>5, <2>1, TypeFacts DEF Repairing, RepairInv
  <2> QED
    BY <1>1, <1>2, <1>3, <1>4, <1>5, <1>11, <1>13, <2>2 DEF ReadAt, Content, ValueAt, InPlay, Repairers
<1> QED
  BY <1>1, <1>3, <1>10, <1>12, <1>13 DEF RepairInv, Repaired, HasContent

LEMMA RunAntiEntropyInv ==
  ASSUME RepairInv, RunAntiEntropy, raced' = (raced \/ Meeting)
  PROVE  RepairInv'
<1>1. /\ "task" \in Repairers /\ pc.task = "fetch"
      /\ UNCHANGED <<value, writes, sseq, suuid, inbox, record, making, got, md, lost>>
  BY DEF Repairers, RunAntiEntropy, member, cache
<1>2. /\ pc' \in Pcs /\ pc'["task"] = "uuid" /\ pc'.reader = pc.reader
      /\ \A u \in Repairers \ {"task"} : pc'[u] = pc[u]
  BY <1>1, RepairerGoes DEF RepairInv, PcTypes, RunAntiEntropy
<1>3. /\ arg' \in [Repairers -> Args]
      /\ arg'["task"].uuid = suuid /\ arg'["task"].seq = sseq /\ arg'["task"].via = TRUE
      /\ \A u \in Repairers \ {"task"} : arg'[u] = arg[u]
  BY <1>1, FetchedEffect DEF RunAntiEntropy
<1>4. /\ md' \in MetaData /\ md'.uuid = md.uuid /\ md'.seq = md.seq
      /\ md'.stale = md.stale /\ md'.missed = md.missed
  BY <1>1, TypeFacts DEF RepairInv
<1>5. TypeOK'
  BY <1>1, <1>2, <1>3, <1>4 DEF RepairInv, TypeOK, Meeting, MetaData, Args
<1>6. Filling' /\ Numbered'
  BY <1>1, <1>2 DEF RepairInv, Filling, Numbered, ValueAt
<1>7. Behind'
  BY <1>1, <1>2, <1>3, <1>4, TypeFacts DEF RepairInv, Behind, IsOld, InPlay, Repairers
<1>8. SUFFICES ASSUME Apart' PROVE Followed' /\ Repaired'
  BY <1>5, <1>6, <1>7 DEF RepairInv, Followed, Repaired
<1>9. Apart
  BY <1>8, WasApart DEF RepairInv
<1>10. Resetting' <=> Resetting
  BY <1>1, <1>2 DEF Resetting
<1>11. Followed'
  BY <1>1, <1>2, <1>3, <1>4, <1>9, <1>10 DEF RepairInv, Followed, Known
<1>12. ASSUME NEW r \in record, NEW n \in 0..sseq, ReadAt(r, n) PROVE ReadAt(r, n)'
  <2>1. r.seq <= n /\ r.seq \in Nat
    BY <1>12, TypeFacts DEF ReadAt, RepairInv
  <2>2. md.seq <= n \/ Repairing(r) => md.seq <= n \/ Repairing(r)'
    BY <1>1, <1>2, <1>3, <1>4, <2>1, TypeFacts DEF Repairing, RepairInv
  <2> QED
    BY <1>1, <1>2, <1>3, <1>4, <1>10, <1>12, <2>2 DEF ReadAt, Content, ValueAt, InPlay, Repairers
<1> QED
  BY <1>1, <1>2, <1>9, <1>11, <1>12 DEF RepairInv, Repaired, HasContent

LEMMA NoAntiEntropyInv ==
  ASSUME RepairInv, NoAntiEntropy, raced' = (raced \/ Meeting)
  PROVE  RepairInv'
<1>1. /\ "task" \in Repairers /\ pc.task = "fetch"
      /\ UNCHANGED <<value, writes, sseq, suuid, inbox, record, making, got, md, lost>>
  BY DEF Repairers, NoAntiEntropy, member, cache
<1>2. /\ pc' \in Pcs /\ pc'["task"] = "idle" /\ pc'.reader = pc.reader
      /\ \A u \in Repairers \ {"task"} : pc'[u] = pc[u]
  BY <1>1, RepairerGoes DEF RepairInv, PcTypes, NoAntiEntropy
<1>3. /\ arg' \in [Repairers -> Args] /\ arg'["task"] = NoArg
      /\ \A u \in Repairers \ {"task"} : arg'[u] = arg[u]
  BY <1>1, ArgEffect, NoArgType, TypeFacts DEF RepairInv, NoAntiEntropy
<1>4. /\ md' \in MetaData /\ md'.uuid = md.uuid /\ md'.seq = md.seq
      /\ md'.stale = md.stale /\ md'.missed = md.missed
  BY <1>1, TypeFacts DEF RepairInv
<1>5. TypeOK'
  BY <1>1, <1>2, <1>3, <1>4 DEF RepairInv, TypeOK, Meeting, MetaData, Args
<1>6. Filling' /\ Numbered'
  BY <1>1, <1>2 DEF RepairInv, Filling, Numbered, ValueAt
<1>7. Behind'
  BY <1>1, <1>2, <1>3, <1>4, TypeFacts DEF RepairInv, Behind, IsOld, InPlay, Repairers
<1>8. SUFFICES ASSUME Apart' PROVE Followed' /\ Repaired'
  BY <1>5, <1>6, <1>7 DEF RepairInv, Followed, Repaired
<1>9. Apart
  BY <1>8, WasApart DEF RepairInv
<1>10. Resetting' <=> Resetting
  BY <1>1, <1>2 DEF Resetting
<1>11. Followed'
  BY <1>1, <1>2, <1>3, <1>4, <1>9, <1>10 DEF RepairInv, Followed, Known
<1>12. ASSUME NEW r \in record, NEW n \in 0..sseq, ReadAt(r, n) PROVE ReadAt(r, n)'
  <2>1. r.seq <= n /\ r.seq \in Nat
    BY <1>12, TypeFacts DEF ReadAt, RepairInv
  <2>2. md.seq <= n \/ Repairing(r) => md.seq <= n \/ Repairing(r)'
    BY <1>1, <1>2, <1>3, <1>4, <2>1, TypeFacts DEF Repairing, RepairInv
  <2> QED
    BY <1>1, <1>2, <1>3, <1>4, <1>10, <1>12, <2>2 DEF ReadAt, Content, ValueAt, InPlay, Repairers
<1> QED
  BY <1>1, <1>2, <1>9, <1>11, <1>12 DEF RepairInv, Repaired, HasContent

-----------------------------------------------------------------------------
LEMMA InitInv == Init => RepairInv /\ Applied
<1> SUFFICES ASSUME Init PROVE RepairInv /\ Applied
  OBVIOUS
<1>1. TypeOK /\ Filling /\ record = {} /\ making = {} /\ inbox = <<>> /\ md.seq = 0
  BY InitType DEF Init
<1>2. \A t \in Repairers : pc[t] \in {"idle", "fetch"}
  BY DEF Init, Repairers
<1>3. Numbered
  BY DEF Init, Numbered, ValueAt
<1>4. md.uuid <= suuid
  BY OptionsAssumption DEF Init
<1>5. Behind
  BY <1>1, <1>2, <1>4 DEF Behind, InPlay, Repairers
<1>6. Followed
  BY <1>1, <1>2, <1>3, TypeFacts DEF Followed, Known
<1>7. Repaired /\ Applied
  BY <1>1 DEF Repaired, Applied
<1> QED
  BY <1>1, <1>3, <1>5, <1>6, <1>7 DEF RepairInv

LEMMA StutterInv == RepairInv /\ UNCHANGED vars => RepairInv'
<1> SUFFICES ASSUME RepairInv, UNCHANGED vars PROVE RepairInv'
  OBVIOUS
<1>1. UNCHANGED <<value, writes, sseq, suuid, inbox, record, making, got, md, pc, arg, lost, raced>>
  BY DEF vars, member, cache, history
<1>2. TypeOK' /\ Filling' /\ Numbered' /\ Behind'
  BY <1>1 DEF RepairInv, TypeOK, Filling, Numbered, ValueAt, Behind, IsOld
<1>3. (Apart' <=> Apart) /\ (Resetting' <=> Resetting)
  BY <1>1 DEF Apart, Clash, Working, Resetting
<1>4. Followed' /\ Repaired'
  BY <1>1, <1>3 DEF RepairInv, Followed, Repaired, HasContent, ReadAt, Content, ValueAt, Repairing
<1> QED
  BY <1>2, <1>4 DEF RepairInv

LEMMA StepInv == RepairInv /\ [Next]_vars => RepairInv'
<1> SUFFICES ASSUME RepairInv, [Next]_vars PROVE RepairInv'
  OBVIOUS
<1>1. CASE UNCHANGED vars
  BY <1>1, StutterInv
<1>2. CASE Next
  <2>1. raced' = (raced \/ Meeting)
    BY <1>2 DEF Next
  <2>2. CASE OtherClient \/ LoseInvalidation \/ LosePartition
    BY <2>1, <2>2, OtherClientInv, LoseInvalidationInv, LosePartitionInv
  <2>3. CASE DropStale \/ Reserve \/ ReadStep
    BY <2>1, <2>3, DropStaleInv, ReserveInv, ReservedInv, RemoteGetInv, TryPublishInv DEF ReadStep
  <2>4. ASSUME NEW t \in {"handler", "task"}, RepairStep(t) PROVE RepairInv'
    BY <2>1, <2>4, CheckUUIDInv, ResetSequenceInv, ResetStaleInv, CheckSequenceInv, AddMissedInv
       DEF RepairStep
  <2>5. CASE HandleStep
    BY <2>1, <2>4, <2>5, HandleInv, HandleInvalidatesInv DEF HandleStep
  <2>6. CASE InitStep
    BY <2>1, <2>6, InitFetchInv, InitGivenUpInv, InitUUIDInv, InitSequenceInv DEF InitStep
  <2>7. CASE TaskStep
    BY <2>1, <2>4, <2>7, FixGapsInv, ReadSequenceInv, ReadStaleInv, CASInv, RunAntiEntropyInv,
       NoAntiEntropyInv DEF TaskStep
  <2> QED
    BY <1>2, <2>2, <2>3, <2>5, <2>6, <2>7 DEF Next
<1> QED
  BY <1>1, <1>2

(***************************************************************************)
(* Whatever was lost, a client that has caught up answers with no stale    *)
(* value, unless two repairers have met: for any number of changes, of     *)
(* lost invalidations and of lost partitions, and any tolerated count, the *)
(* counting of missed invalidations by the handler and the task makes up   *)
(* for all of them.                                                        *)
(***************************************************************************)
THEOREM LossesAreRepaired == Spec => []CaughtUpIsRepaired
<1>1. RepairInv => CaughtUpIsRepaired
  <2> SUFFICES ASSUME RepairInv, CaughtUp, ~raced, NEW r \in record,
                      r.val \notin {NoVal, value}, ~IsStaleRead(r)
               PROVE  FALSE
    BY DEF CaughtUpIsRepaired, StaleServed
  <2>1. /\ inbox = <<>> /\ pc.handler = "idle" /\ pc.task = "idle"
        /\ md.uuid = suuid /\ md.seq = sseq /\ md.missed = 0
        /\ r.uuid = suuid /\ ~(r.seq < md.stale)
    BY DEF CaughtUp, IsStaleRead
  <2>2. \A t \in Repairers : pc[t] \notin {"reset", "resetStale"}
    BY <2>1 DEF RepairInv, TypeOK, Pcs, Repairers
  <2>3. Apart /\ ~Resetting
    BY <2>2 DEF Apart, Clash, Resetting
  <2>4. pc.reader = "idle"
    BY DEF RepairInv, TypeOK, Pcs, Filling
  <2>5. PICK n \in 0..sseq : ReadAt(r, n)
    BY <2>1, <2>3, <2>4 DEF RepairInv, Repaired, HasContent
  <2>6. Content(r) = ValueAt(n) /\ (md.seq <= n \/ Repairing(r))
    BY <2>1, <2>3, <2>5 DEF ReadAt
  <2>7. n = sseq
    BY <2>1, <2>6, TypeFacts DEF Repairing, RepairInv
  <2>8. r.val = value
    BY <2>4, <2>6, <2>7 DEF Content, RepairInv, Numbered
  <2> QED
    BY <2>8
<1> QED
  BY <1>1, InitInv, StepInv, PTL DEF Spec

-----------------------------------------------------------------------------
(* While nothing is lost *)

LEMMA AppliedStep == RepairInv /\ Applied /\ [Next]_vars => Applied'
<1> SUFFICES ASSUME RepairInv, Applied, [Next]_vars PROVE Applied'
  OBVIOUS
<1>1. TypeOK /\ Filling
  BY DEF RepairInv
<1>2. CASE UNCHANGED vars
  BY <1>2 DEF vars, member, cache, history, Applied, Pending, HasContent, Content
<1>3. CASE OtherClient
  <2>1. inbox' # <<>>
    BY <1>1, <1>3 DEF OtherClient, TypeOK
  <2> QED
    BY <2>1 DEF Applied, Pending
<1>4. CASE LoseInvalidation \/ LosePartition
  BY <1>4 DEF LoseInvalidation, LosePartition, Applied
<1>5. CASE DropStale \/ HandleInvalidates
  BY <1>5 DEF DropStale, HandleInvalidates, Applied
<1>6. CASE Reserve
  BY <1>6 DEF Reserve, Applied
<1>7. CASE Reserved
  BY <1>1, <1>7, ReaderGoes DEF Reserved, PcTypes, Applied, HasContent
<1>8. CASE RemoteGet
  <2>1. got' = value /\ value' = value /\ pc'.reader = "publish"
    BY <1>1, <1>8, ReaderGoes DEF RemoteGet, PcTypes, member
  <2> QED
    BY <2>1 DEF Applied, Content
<1>9. CASE TryPublishReserved
  <2>1. /\ pc.reader = "publish" /\ pc'.reader = "idle" /\ pc'.handler = pc.handler
        /\ UNCHANGED <<value, inbox, lost>>
        /\ record' = {[r EXCEPT !.val = got] : r \in record}
    BY <1>1, <1>9, ReaderGoes DEF TryPublishReserved, PcTypes, member
  <2>2. ASSUME NEW q \in Records PROVE [q EXCEPT !.val = got].val = got
    BY DEF Records
  <2>3. \A r \in record' : r.val = got /\ record # {}
    BY <1>1, <2>1, <2>2, TypeFacts
  <2> QED
    BY <2>1, <2>3 DEF Applied, Pending, HasContent, Content
<1>10. CASE Handle
  <2>1. pc'.handler = "inval"
    BY <1>1, <1>10, RepairerGoes DEF Handle, PcTypes, Repairers
  <2> QED
    BY <2>1 DEF Applied, Pending
<1>11. ASSUME UNCHANGED <<member, cache, lost>>, pc'.reader = pc.reader,
              pc'.handler = "inval" <=> pc.handler = "inval"
       PROVE  Applied'
  BY <1>11 DEF member, cache, Applied, Pending, HasContent, Content
<1>12. ASSUME NEW t \in {"handler", "task"}, RepairStep(t) PROVE Applied'
  <2>1. PICK l \in {"uuid", "reset", "resetStale", "seq", "missed", "idle"} : Goto(t, l)
    BY <1>12 DEF RepairStep, CheckOrRepairUUID, ResetSequence, ResetStaleSequence,
                 CheckOrRepairSequence, AddMissed
  <2>2. pc[t] # "inval" /\ UNCHANGED <<member, cache, lost>>
    BY <1>12 DEF RepairStep, CheckOrRepairUUID, ResetSequence, ResetStaleSequence,
                 CheckOrRepairSequence, AddMissed
  <2>3. /\ pc'[t] = l /\ pc'.reader = pc.reader
        /\ \A u \in Repairers \ {t} : pc'[u] = pc[u]
    BY <1>1, <2>1, BothTypes, RepairerGoes
  <2>4. pc'.handler = "inval" <=> pc.handler = "inval"
    BY <2>2, <2>3 DEF Repairers
  <2> QED
    BY <1>11, <2>2, <2>3, <2>4
<1>13. CASE InitStep
  <2>1. UNCHANGED <<member, cache, lost>> /\ \E l \in PcTypes["init"] : Goto("init", l)
    BY <1>13 DEF InitStep, InitFetch, InitGivenUp, InitUUID, InitSequence, PcTypes
  <2>2. pc'.reader = pc.reader /\ pc'.handler = pc.handler
    BY <1>1, <2>1, RepairerGoes DEF Repairers
  <2> QED
    BY <1>11, <2>1, <2>2
<1>14. CASE TaskStep /\ ~RepairStep("task")
  <2>1. UNCHANGED <<member, cache, lost>> /\ \E l \in PcTypes["task"] : Goto("task", l)
    BY <1>14 DEF TaskStep, FixSequenceGaps, ReadSequence, ReadStaleSequence, CASStaleSequence,
                 RunAntiEntropy, NoAntiEntropy, PcTypes
  <2>2. pc'.reader = pc.reader /\ pc'.handler = pc.handler
    BY <1>1, <2>1, RepairerGoes DEF Repairers
  <2> QED
    BY <1>11, <2>1, <2>2
<1> QED
  BY <1>2, <1>3, <1>4, <1>5, <1>6, <1>7, <1>8, <1>9, <1>10, <1>12, <1>13, <1>14
     DEF Next, ReadStep, HandleStep, TaskStep

(***************************************************************************)
(* While no invalidation is lost, a record holds the value of the map or   *)
(* its invalidation has still to be applied, whatever sequences and UUIDs  *)
(* the three repairers write, in any order: following the sequences never  *)
(* makes the handler skip an invalidation.                                 *)
(***************************************************************************)
THEOREM NothingIsSkipped == Spec => []AppliedUnlessLost
<1>1. RepairInv /\ Applied => AppliedUnlessLost
  BY DEF RepairInv, TypeOK, Pcs, Filling, Applied, AppliedUnlessLost, HasContent, Content
<1> QED
  BY <1>1, InitInv, StepInv, AppliedStep, PTL DEF Spec

=============================================================================
