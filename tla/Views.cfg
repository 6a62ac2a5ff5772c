SPECIFICATION ViewSpec
CONSTANTS
    u1 = u1  u2 = u2  u3 = u3  u4 = u4  u5 = u5  none = none
    Uuids <- MCUuids
    NoUuid = none
    AddrOf <- MCAddrOf
    Translate <- MCTranslate
    VersionOf <- MCVersionOf
    LiteMembers <- MCLite
    Routes <- MCRoutes
    Lists <- MCLists
    Owners <- MCOwners
    Counts <- MCCounts
INVARIANT SomeoneWatches
 
 
PROPERTY ImplementsMemberView
CHECK_DEADLOCK FALSE
