--------------------------- MODULE FlakeIdGenerator ---------------------------
(***************************************************************************)
(* Goroutines that share one generator (flake_id_generator.go) and take    *)
(* IDs from batches the members hand out.  A batch is shared through an    *)
(* atomic pointer and its index through an atomic counter; the mutex is    *)
(* only held while a batch is replaced.                                    *)
(***************************************************************************)
EXTENDS Integers, Sequences, FiniteSets

CONSTANTS
    Takers,         \* goroutines
    BatchSize,      \* PrefetchCount
    IdMembers,      \* 0..n-1: members that hand out batches
    MaxBatches

ASSUME MembersHandOut ==
    /\ IsFiniteSet(IdMembers) /\ IdMembers # {} /\ IdMembers = 0..(Cardinality(IdMembers) - 1)
    /\ BatchSize \in Nat

VARIABLES
    batches,        \* the batches the client has stored; the pointer is their number
    handedOut,      \* per member: how many IDs it has given away
    flakeMu,        \* the taker that holds mu, or NoTaker
    taker,          \* per goroutine: where it is in NewID, its batch and its ID
    taken           \* the IDs that were returned, in order

flakeVars == <<batches, handedOut, flakeMu, taker, taken>>

NoTaker == "nobody"
invalidFlakeID == -1

Stored == Len(batches)
Batch(base, size, index, expired) ==
    [base |-> base, increment |-> Cardinality(IdMembers), size |-> size, index |-> index, expired |-> expired]

FlakeInit ==
    /\ batches = <<Batch(0, 0, 0, TRUE)>>
    /\ handedOut = [m \in IdMembers |-> 0]
    /\ flakeMu = NoTaker
    /\ taker = [t \in Takers |-> [at |-> "idle", batch |-> 0]]
    /\ taken = <<>>

---------------------------------------------------------------------------
Goes(t, where) == taker' = [taker EXCEPT ![t].at = where]

\* PrefetchExpiry has passed
Expires ==
    /\ ~batches[Stored].expired
    /\ batches' = [batches EXCEPT ![Stored].expired = TRUE]
    /\ UNCHANGED <<handedOut, flakeMu, taker, taken>>

\* The loop of NewID loads the pointer ...
LoadBatch(t) ==
    /\ taker[t].at = "idle"
    /\ taker' = [taker EXCEPT ![t] = [at |-> "loaded", batch |-> Stored]]
    /\ UNCHANGED <<batches, handedOut, flakeMu, taken>>

\* ... looks whether the batch has expired ...
CheckExpiry(t) ==
    /\ taker[t].at = "loaded"
    /\ Goes(t, IF batches[taker[t].batch].expired THEN "empty" ELSE "counting")
    /\ UNCHANGED <<batches, handedOut, flakeMu, taken>>

\* a mutant that serves one ID too many
isServedUpToSize(idx, size) == idx <= size

isServed(idx, size) == idx < size

\* ... and counts.
NextID(t) ==
    /\ taker[t].at = "counting"
    /\ LET b   == taker[t].batch
           idx == batches[b].index + 1
       IN  /\ batches' = [batches EXCEPT ![b].index = idx]
           /\ IF isServed(idx, batches[b].size)
              THEN /\ taken' = Append(taken, batches[b].base + idx * batches[b].increment)
                   /\ Goes(t, "idle")
              ELSE Goes(t, "empty") /\ UNCHANGED taken
    /\ UNCHANGED <<handedOut, flakeMu>>

\* tryUpdateBatch
Lock(t) ==
    /\ taker[t].at = "empty" /\ flakeMu = NoTaker
    /\ IF taker[t].batch # Stored
       THEN Goes(t, "idle") /\ UNCHANGED flakeMu
       ELSE Goes(t, "asking") /\ flakeMu' = t
    /\ UNCHANGED <<batches, handedOut, taken>>

\* flakeIDBatchFromMemberFn: a member hands out a batch; the answer may get
\* lost, and then its IDs are lost with it.
NewBatch(t, m) ==
    /\ taker[t].at = "asking" /\ Stored <= MaxBatches
    /\ batches' = Append(batches, Batch(m + handedOut[m] * Cardinality(IdMembers), BatchSize, -1, FALSE))
    /\ handedOut' = [handedOut EXCEPT ![m] = @ + BatchSize]
    /\ flakeMu' = NoTaker
    /\ Goes(t, "idle")
    /\ UNCHANGED taken

NewBatchFails(t) ==
    /\ taker[t].at = "asking"
    /\ \E m \in IdMembers : /\ handedOut[m] < MaxBatches * BatchSize
                            /\ handedOut' = [handedOut EXCEPT ![m] = @ + BatchSize]
    /\ flakeMu' = NoTaker
    /\ Goes(t, "idle")
    /\ UNCHANGED <<batches, taken>>

FlakeNext ==
    \/ Expires
    \/ \E t \in Takers : \/ LoadBatch(t) \/ CheckExpiry(t) \/ NextID(t) \/ Lock(t) \/ NewBatchFails(t)
                         \/ \E m \in IdMembers : NewBatch(t, m)

FlakeSpec == FlakeInit /\ [][FlakeNext]_flakeVars

---------------------------------------------------------------------------
(***************************************************************************)
(* No ID is returned twice, and every ID comes from a range a member has   *)
(* handed out: takers that exhaust a batch together, or hold one that was  *)
(* replaced, never go beyond its end into the range of another client.     *)
(***************************************************************************)
IdsAreUnique ==
    /\ \A i, j \in DOMAIN taken : taken[i] = taken[j] => i = j
    /\ \A i \in DOMAIN taken : LET n == Cardinality(IdMembers)
                               IN  taken[i] \div n < handedOut[taken[i] % n]
=============================================================================
