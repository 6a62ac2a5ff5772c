------------------------------ MODULE ProxyLocks ------------------------------
(***************************************************************************)
(* Locks on one key of a map (proxy_map.go; MultiMap has the same code):   *)
(* goroutines with lock contexts call Lock, TryLock, Unlock and            *)
(* ForceUnlock while connections are lost.  The requests are retryable,    *)
(* so an answer that is lost makes the client send the same request        *)
(* again; the reference ID that was drawn before the first attempt lets    *)
(* the member recognise it.                                                *)
(*                                                                         *)
(* The member's lock is external: it is re-entrant for a lock ID, ignores  *)
(* a request with the reference ID of the last one it has carried out, and *)
(* forgets the requests of a connection that is gone.                      *)
(***************************************************************************)
EXTENDS Integers, FiniteSets, FiniteSetsExt

CONSTANTS
    Goroutines,
    ContextOf,     \* per goroutine: its lock context, or NoContext for a plain context
    MaxLockCalls,  \* calls of all goroutines
    MaxDrops       \* lost connections

\* Goroutines have contexts of their own: the lock ID tells them apart.
ASSUME LocksAssumption ==
    IsFiniteSet(Goroutines) /\ \A g, h \in Goroutines : ContextOf[g] = ContextOf[h] => g = h

VARIABLES
    nextID,        \* ReferenceIDGenerator.nextID
    lockIDOf,      \* per lock context: the ID NewLockContext gave it, 0 if it is not made yet
    locking,       \* per goroutine: its call
    keyLock,       \* member: the lock of the key
    held,          \* per goroutine: calls of Lock that returned less those of Unlock
    unsure,        \* goroutines that were told an error: what the member did is not known
    forced,        \* has ForceUnlock been called?
    lockCalls, drops

lockVars == <<nextID, lockIDOf, locking, keyLock, held, unsure, forced, lockCalls, drops>>

NoContext     == "plain context"
defaultLockID == 0
Free          == [owner |-> -1, count |-> 0, reference |-> 0]
NoLockCall    == [kind |-> "none", step |-> "idle", lockID |-> 0, reference |-> 0]
LockContexts  == {ContextOf[g] : g \in Goroutines} \ {NoContext}

LockInit ==
    /\ nextID = 0
    /\ lockIDOf = [c \in LockContexts |-> 0]
    /\ locking = [g \in Goroutines |-> NoLockCall]
    /\ keyLock = Free
    /\ held = [g \in Goroutines |-> 0]
    /\ unsure = {} /\ forced = FALSE
    /\ lockCalls = 0 /\ drops = 0

---------------------------------------------------------------------------
\* Map.NewLockContext: lock IDs come from the generator of the reference IDs
NewLockContext(c) ==
    /\ lockIDOf[c] = 0
    /\ nextID' = nextID + 1
    /\ lockIDOf' = [lockIDOf EXCEPT ![c] = nextID + 1]
    /\ UNCHANGED <<locking, keyLock, held, unsure, forced, lockCalls, drops>>

\* ExtractLockID
ExtractLockID(g) == IF ContextOf[g] = NoContext THEN defaultLockID ELSE lockIDOf[ContextOf[g]]

\* lock, tryLock, Unlock and ForceUnlock up to the first attempt: refIDGen.NextID
\* is drawn here
LockCall(g, kind) ==
    /\ locking[g] = NoLockCall /\ lockCalls < MaxLockCalls
    /\ ContextOf[g] # NoContext => lockIDOf[ContextOf[g]] # 0
    /\ kind = "unlock" => held[g] > 0 \/ g \in unsure
    /\ nextID' = nextID + 1
    /\ locking' = [locking EXCEPT ![g] = [kind |-> kind, step |-> "sent", lockID |-> ExtractLockID(g),
                                          reference |-> nextID + 1]]
    /\ lockCalls' = lockCalls + 1
    /\ UNCHANGED <<lockIDOf, keyLock, held, unsure, forced, drops>>

---------------------------------------------------------------------------
\* The member, external.  A lock that is taken is waited for, or refused when
\* the request is a TryLock without a timeout.
Grants(r)    == keyLock = Free \/ keyLock.owner = r.lockID
Carried(r)   == keyLock.owner = r.lockID /\ keyLock.reference = r.reference

AfterLock(r) ==
    IF Carried(r) THEN keyLock
    ELSE [owner |-> r.lockID, count |-> keyLock.count + 1, reference |-> r.reference]

AfterUnlock(r) ==
    IF Carried(r) \/ keyLock.owner # r.lockID THEN keyLock
    ELSE IF keyLock.count = 1 THEN Free
    ELSE [keyLock EXCEPT !.count = @ - 1, !.reference = r.reference]

MemberAnswers(g) ==
    LET r == locking[g]
    IN  /\ r.step = "sent"
        /\ \/ r.kind \in {"lock", "try"} /\ Grants(r)
              /\ keyLock' = AfterLock(r)
              /\ locking' = [locking EXCEPT ![g].step = "granted"]
           \/ r.kind = "try" /\ ~Grants(r)
              /\ keyLock' = keyLock
              /\ locking' = [locking EXCEPT ![g].step = "refused"]
           \/ r.kind = "unlock"
              /\ keyLock' = AfterUnlock(r)
              \* IllegalMonitorStateException; a lock that was released by the
              \* first attempt answers the second one the same way
              /\ locking' = [locking EXCEPT ![g].step = IF keyLock.owner = r.lockID THEN "granted" ELSE "error"]
           \/ r.kind = "force"
              /\ keyLock' = Free
              /\ locking' = [locking EXCEPT ![g].step = "granted"]
        /\ UNCHANGED <<nextID, lockIDOf, held, unsure, forced, lockCalls, drops>>

---------------------------------------------------------------------------
\* a mutant that draws a new reference ID for every attempt
RetryRequestWithNewReference(r) == [r EXCEPT !.step = "sent", !.reference = @ + 100]

\* The connection is lost before or after the member has acted: the same
\* request is sent again.
RetryRequest(r) == [r EXCEPT !.step = "sent"]

ConnectionDrops(g) ==
    /\ drops < MaxDrops /\ locking[g].step \in {"sent", "granted", "refused", "error"}
    /\ locking' = [locking EXCEPT ![g] = RetryRequest(@)]
    /\ drops' = drops + 1
    /\ UNCHANGED <<nextID, lockIDOf, keyLock, held, unsure, forced, lockCalls>>

\* The call ends with an error of the client: the context is done, the client
\* shuts down, the invocation times out.
GivesUp(g) ==
    /\ locking[g].step # "idle"
    /\ locking' = [locking EXCEPT ![g] = NoLockCall]
    /\ unsure' = unsure \cup {g}
    /\ forced' = (forced \/ locking[g].kind = "force")
    /\ UNCHANGED <<nextID, lockIDOf, keyLock, held, lockCalls, drops>>

LockCallReturns(g) ==
    LET r == locking[g]
    IN  /\ r.step \in {"granted", "refused", "error"}
        /\ locking' = [locking EXCEPT ![g] = NoLockCall]
        /\ held' = [held EXCEPT ![g] =
               IF r.step # "granted" \/ r.kind = "force" THEN @ ELSE IF r.kind = "unlock" THEN @ - 1 ELSE @ + 1]
        /\ unsure' = IF r.step = "error" THEN unsure \cup {g} ELSE unsure
        /\ forced' = (forced \/ r.kind = "force")
        /\ UNCHANGED <<nextID, lockIDOf, keyLock, lockCalls, drops>>

LockNext ==
    \/ \E c \in LockContexts : NewLockContext(c)
    \/ \E g \in Goroutines :
           \/ \E kind \in {"lock", "try", "unlock", "force"} : LockCall(g, kind)
           \/ MemberAnswers(g) \/ ConnectionDrops(g) \/ GivesUp(g) \/ LockCallReturns(g)

LockSpec == LockInit /\ [][LockNext]_lockVars

---------------------------------------------------------------------------
CountOf(S) == FoldSet(LAMBDA g, n : held[g] + n, 0, S)

(***************************************************************************)
(* The lock is held exactly as often as the callers were told.  When no    *)
(* call is under way, every goroutine that shares the lock's ID knows the  *)
(* outcome of its calls and nobody has forced the lock, the member's count *)
(* is the number of Locks that returned less the number of Unlocks, and    *)
(* nobody else was told that it holds the lock, however often requests     *)
(* were sent again (Map: "If the key is locked N times, it should be       *)
(* unlocked N times before another goroutine can acquire it").             *)
(***************************************************************************)
LockIsBalanced ==
    (\A g \in Goroutines : locking[g] = NoLockCall) /\ unsure = {} /\ ~forced =>
        /\ keyLock.count = CountOf(Goroutines)
        /\ \A g, h \in Goroutines : held[g] > 0 /\ held[h] > 0 => ExtractLockID(g) = ExtractLockID(h)
=============================================================================
