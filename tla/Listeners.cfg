SPECIFICATION BinderSpec
CONSTANTS
    l1 = l1  l2 = l2  m1 = m1  m2 = m2
    Ids <- MCIds
    Members <- MCMembers
    MemberOf <- MCMemberOf
    MaxFaults = 1
SYMMETRY Symmetry
INVARIANT EveryConnectionListens
INVARIANT TwiceOnlyIfForgotten
INVARIANT RemovedIsSilent
INVARIANT TablesAgree
CHECK_DEADLOCK FALSE
