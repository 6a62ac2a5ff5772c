\* Flake IDs, PN counter, SQL results, proxy calls, locks and batches.
SPECIFICATION Spec
CONSTANTS
    Takers = {"t1", "t2"}
    BatchSize = 2
    IdMembers = {0, 1}
    MaxBatches = 2
    Users = {"a", "b"}
    OrderedMembers <- MCOrderedMembers
    LiteMembers = {"lite"}
    MaxReplicaCount = 2
    MaxUpdates = 2
    MaxCalls = 2
    MaxLosses = 1
    Queries <- MCQueries
    LockIDs = {0, 7}
    Durations = {0, 500, 2000}
    Handlers <- MCHandlers
    IndexConfigs <- MCIndexConfigs
    Goroutines = {"a", "b", "p"}
    ContextOf <- MCContextOf
    MaxLockCalls = 3
    MaxDrops = 2
    PartitionIDs = {0, 1, 2}
    PartitionIDOf <- MCPartitionIDOf
    Batches <- MCBatches
    Stored0 <- MCStored
INVARIANTS
    IdsAreUnique
    SessionIsMonotone
    
    QueryIsReleased
    
    LockIsBalanced
    BatchIsWhole
CHECK_DEADLOCK FALSE
