CONSTANTS
    p1 = p1
    s1 = s1
    s2 = s2
    u1 = u1
    a1 = a1
    x = x
    Stopper = x
    Subs = {s1, s2}
    InitialSubs = {s1}
    NameOf <- OneName
    Publishers = {p1}
    PublishTo <- Publishing
    Unsubscribers <- UnsubscribeS1
    Subscribers <- SubscribeS2
    QueueCap = 1
    MaxEvents = 2
SPECIFICATION FairSpec
CHECK_DEADLOCK FALSE
INVARIANTS StoppedIsDrained HandledInOrder
 
