------------------------------ MODULE MCServices ------------------------------
(***************************************************************************)
(* The parts of the client that sit on top of the invocations, each        *)
(* checked for itself: scenario names the part that runs, the others stay  *)
(* in their initial state.                                                 *)
(***************************************************************************)
EXTENDS FlakeIdGenerator, PNCounter, SqlResult, ProxyCall, ProxyLocks, ProxyBatch

VARIABLE scenario

MCOrderedMembers == <<"r1", "lite", "r2">>

\* pages by their number of rows: empty ones in front, between and at the
\* end, a failed fetch, and a statement that is an update
MCQueries ==
    {[update |-> FALSE, pages |-> p] :
        p \in {<<2, 1>>, <<2, 0, 1>>, <<0>>, <<1, 1, 2>>, <<NoColumns>>, <<NoColumns, 1>>}}
    \cup {[update |-> TRUE, pages |-> <<>>]}

Attribute(n, this, sound) == [name |-> n, this |-> this, sound |-> sound]
MCIndexConfigs ==
    [attributes : {<<>>, <<Attribute("a", FALSE, TRUE)>>, <<Attribute("a", FALSE, FALSE)>>,
                   <<Attribute("a", FALSE, TRUE), Attribute("b", TRUE, TRUE)>>,
                   <<Attribute("a", FALSE, TRUE), Attribute("a", TRUE, TRUE)>>},
     bitmap : BOOLEAN]
MCHandlers ==
    {{"EntryAdded"}, {"MapCleared"}, {"MapEvicted", "EntryLoaded"},
     {"EntryAdded", "EntryRemoved", "EntryUpdated", "EntryEvicted", "EntryExpired", "EntryMerged",
      "EntryLoaded", "MapCleared", "MapEvicted"}}

\* two goroutines with contexts of their own, one with a plain context
MCContextOf == [g \in Goroutines |-> IF g = "a" THEN "c1" ELSE IF g = "b" THEN "c2" ELSE NoContext]

Entry(k, v) == [key |-> k, value |-> v]
MCPartitionIDOf == [k \in {"k1", "k2", "k3", "k4"} |-> IF k \in {"k1", "k2"} THEN 0 ELSE IF k = "k3" THEN 1 ELSE 2]
MCBatches ==
    {<<>>, <<Entry("k1", "x"), Entry("k3", "y"), Entry("k2", "x"), Entry("k1", "y")>>,
     <<Entry("k4", "x"), Entry("k3", NilValue)>>, <<Entry(NilValue, "x")>>, <<Entry("k4", "x"), Entry("k1", "x")>>}
MCStored == [k \in {"k1", "k4"} |-> IF k = "k1" THEN "old" ELSE "x"]

Init ==
    /\ scenario \in {"ids", "counter", "sql", "call", "locks", "batch"}
    /\ FlakeInit /\ PNInit /\ CallInit /\ LockInit /\ BatchInit
    /\ SqlInit /\ (scenario # "sql" => query.update)

Next ==
    /\ scenario' = scenario
    /\ \/ scenario = "ids" /\ FlakeNext /\ UNCHANGED <<pnVars, sqlVars, callVars, lockVars, batchVars>>
       \/ scenario = "counter" /\ PNNext /\ UNCHANGED <<flakeVars, sqlVars, callVars, lockVars, batchVars>>
       \/ scenario = "sql" /\ SqlNext /\ UNCHANGED <<flakeVars, pnVars, callVars, lockVars, batchVars>>
       \/ scenario = "call" /\ CallNext /\ UNCHANGED <<flakeVars, pnVars, sqlVars, lockVars, batchVars>>
       \/ scenario = "locks" /\ LockNext /\ UNCHANGED <<flakeVars, pnVars, sqlVars, callVars, batchVars>>
       \/ scenario = "batch" /\ BatchNext /\ UNCHANGED <<flakeVars, pnVars, sqlVars, callVars, lockVars>>

Spec == Init /\ [][Next]_<<scenario, flakeVars, pnVars, sqlVars, callVars, lockVars, batchVars>>
=============================================================================
