CONSTANTS
    MaxTolerated = 0
    AsyncInit = TRUE
    MaxWrites = 3
    MaxUUID = 2
SPECIFICATION Spec
CHECK_DEADLOCK FALSE
INVARIANTS AppliedUnlessLost CaughtUpIsRepaired
