------------------------------ MODULE PNCounter ------------------------------
(***************************************************************************)
(* Goroutines that share one PN counter (proxy_pn_counter.go): the session *)
(* keeps the replica it talks to and the vector clock it has observed      *)
(* (internal/proxy/vector_clock.go), and every request carries that clock. *)
(* What a replica has seen is its own clock: how many updates of each      *)
(* replica.  The members (external) execute a request only when they have  *)
(* seen all the client has, and gossip.                                    *)
(***************************************************************************)
EXTENDS Integers, Sequences, FiniteSets, SequencesExt

CONSTANTS
    Users,             \* goroutines
    OrderedMembers,    \* the members, in the order of the member list
    LiteMembers,
    MaxReplicaCount,
    MaxUpdates,        \* bound on Add
    MaxCalls,          \* per goroutine
    MaxLosses          \* bound on failing requests

NoMember == "none"

ASSUME MembersAssumption ==
    /\ IsFiniteSet(ToSet(OrderedMembers)) /\ NoMember \notin ToSet(OrderedMembers)
    /\ Len(OrderedMembers) \in Nat /\ DOMAIN OrderedMembers = 1..Len(OrderedMembers)
    /\ MaxReplicaCount \in Nat

VARIABLES
    seenBy,            \* per data member: its vector clock
    clock,             \* PNCounter.clock
    target,            \* PNCounter.target, or NoMember
    user,              \* per goroutine: its call
    observed,          \* what the calls that returned have seen, since the last Reset
    forked,            \* clocks arrived of which neither is after the other
    losses,
    calls

pnVars == <<seenBy, clock, target, user, observed, forked, losses, calls>>

Replicas == ToSet(OrderedMembers) \ LiteMembers

---------------------------------------------------------------------------
(***************************************************************************)
(* Vector clocks: functions from some of the replicas                      *)
(***************************************************************************)
At(vc, r) == IF r \in DOMAIN vc THEN vc[r] ELSE 0
Includes(vc, other) == \A r \in DOMAIN other : At(vc, r) >= other[r]
Join(vc, other) == [r \in DOMAIN vc \union DOMAIN other |-> IF At(vc, r) > At(other, r) THEN At(vc, r) ELSE At(other, r)]

\* a mutant that compares only the number of entries
AfterBySize(vc, other) == {Cardinality(DOMAIN other) < Cardinality(DOMAIN vc)}

\* The loop over a Go map visits the entries of other in any order; the first
\* one that is missing here, or has another timestamp, decides.
After(vc, other) ==
    LET Decides(r) == CASE r \notin DOMAIN vc                       -> FALSE
                        [] r \in DOMAIN vc /\ vc[r] > other[r]      -> TRUE
                        [] OTHER -> Cardinality(DOMAIN other) < Cardinality(DOMAIN vc)
        deciding == {r \in DOMAIN other : r \notin DOMAIN vc \/ vc[r] # other[r]}
    IN  IF deciding = {} THEN {Cardinality(DOMAIN other) < Cardinality(DOMAIN vc)}
        ELSE {Decides(r) : r \in deciding}

---------------------------------------------------------------------------
NoCall == [at |-> "idle", op |-> "get", excluded |-> {}, last |-> NoMember, clocks |-> <<>>, reply |-> <<>>, floor |-> <<>>]

PNInit ==
    /\ seenBy = [r \in Replicas |-> <<>>]
    /\ clock = <<>> /\ target = NoMember
    /\ user = [u \in Users |-> NoCall]
    /\ observed = <<>> /\ forked = FALSE
    /\ losses = 0 /\ calls = [u \in Users |-> 0]

Updates == FoldFunction(LAMBDA a, b : a + b, 0, [r \in Replicas |-> At(seenBy[r], r)])

Call(u, op) ==
    /\ user[u].at = "idle" /\ calls[u] < MaxCalls
    /\ user' = [user EXCEPT ![u] = [NoCall EXCEPT !.at = "choosing", !.op = op, !.floor = observed]]
    /\ calls' = [calls EXCEPT ![u] = @ + 1]
    /\ UNCHANGED <<seenBy, clock, target, observed, forked, losses>>

\* RandomPNCounterReplica: the first suitable member from a random position on
RandomReplica(excluded) ==
    LET n == IF MaxReplicaCount > Len(OrderedMembers) THEN Len(OrderedMembers) ELSE MaxReplicaCount
        Suits(i) == OrderedMembers[i] \notin LiteMembers \union excluded
        From(idx) == {i \in idx..Len(OrderedMembers) : Suits(i)}
    IN  {IF From(idx) = {} THEN NoMember ELSE OrderedMembers[CHOOSE i \in From(idx) : \A j \in From(idx) : i <= j] :
            idx \in 1..n}

\* crdtOperationTarget, under mu
crdtOperationTarget(u) ==
    /\ user[u].at = "choosing"
    /\ \E m \in IF target = NoMember \/ target \in user[u].excluded THEN RandomReplica(user[u].excluded) ELSE {target} :
          IF m = NoMember
          THEN user' = [user EXCEPT ![u] = NoCall] /\ UNCHANGED target    \* ErrNoDataMember
          ELSE /\ target' = m
               /\ user' = [user EXCEPT ![u].at = "sent", ![u].last = m, ![u].clocks = clock]
    /\ UNCHANGED <<seenBy, clock, observed, forked, losses, calls>>

\* The member executes the request, or answers ErrConsistencyLost.
Execute(u) ==
    /\ user[u].at = "sent"
    /\ LET r    == user[u].last
           next == Join(seenBy[r], [s \in {r} |-> At(seenBy[r], r) + 1])
       IN  IF ~Includes(seenBy[r], user[u].clocks)
           THEN user' = [user EXCEPT ![u] = NoCall] /\ UNCHANGED seenBy
           ELSE /\ user[u].op = "add" => Updates < MaxUpdates
                /\ seenBy' = IF user[u].op = "add" THEN [seenBy EXCEPT ![r] = next] ELSE seenBy
                /\ user' = [user EXCEPT ![u].at = "executed", ![u].reply = seenBy'[r]]
    /\ UNCHANGED <<clock, target, observed, forked, losses, calls>>

\* The request does not reach the member, or its answer does not come back.
\* A Get is tried again, an Add only when it was certainly not executed.
Lost(u) ==
    /\ user[u].at \in {"sent", "executed"} /\ losses < MaxLosses
    /\ losses' = losses + 1
    /\ \/ /\ user[u].op = "get" \/ user[u].at = "sent"
          /\ user' = [user EXCEPT ![u].at = "choosing", ![u].excluded = @ \union {user[u].last}]
       \/ /\ user[u].op = "add"                                       \* ErrTargetDisconnected
          /\ user' = [user EXCEPT ![u] = NoCall]
    /\ UNCHANGED <<seenBy, clock, target, observed, forked, calls>>

updateClock(u) ==
    /\ user[u].at = "executed"
    /\ \E after \in After(clock, user[u].reply) : clock' = IF after THEN clock ELSE user[u].reply
    /\ forked' = (forked \/ ~(Includes(clock, user[u].reply) \/ Includes(user[u].reply, clock)))
    /\ observed' = Join(observed, user[u].reply)
    /\ user' = [user EXCEPT ![u].at = "returned"]
    /\ UNCHANGED <<seenBy, target, losses, calls>>

Return(u) ==
    /\ user[u].at = "returned"
    /\ user' = [user EXCEPT ![u] = NoCall]
    /\ UNCHANGED <<seenBy, clock, target, observed, forked, losses, calls>>

\* Reset ends the session: what was observed before does not bind it.
Reset ==
    /\ clock # <<>>
    /\ clock' = <<>> /\ observed' = <<>>
    /\ user' = [u \in Users |-> [user[u] EXCEPT !.floor = <<>>]]
    /\ UNCHANGED <<seenBy, target, forked, losses, calls>>

\* Replicas send each other what they have seen (external).
Gossip(r, s) ==
    /\ r # s /\ ~Includes(seenBy[s], seenBy[r])
    /\ seenBy' = [seenBy EXCEPT ![s] = Join(@, seenBy[r])]
    /\ UNCHANGED <<clock, target, user, observed, forked, losses, calls>>

PNNext ==
    \/ \E u \in Users : \/ \E op \in {"get", "add"} : Call(u, op)
                        \/ crdtOperationTarget(u) \/ Execute(u) \/ Lost(u) \/ updateClock(u) \/ Return(u)
    \/ Reset
    \/ \E r, s \in Replicas : Gossip(r, s)

PNSpec == PNInit /\ [][PNNext]_pnVars

---------------------------------------------------------------------------
(***************************************************************************)
(* Monotonic reads and read-your-writes: a call that starts after another  *)
(* one of the session has returned sees all the other one saw, its own     *)
(* updates included, on whichever replica it ends up after failures.  Once *)
(* two goroutines have brought clocks from two replicas of which neither   *)
(* is after the other, one of them is forgotten and the guarantee with it. *)
(***************************************************************************)
SessionIsMonotone ==
    ~forked => \A u \in Users : user[u].at = "returned" => Includes(user[u].reply, user[u].floor)
=============================================================================
