CONSTANTS
    m1 = m1
    m2 = m2
    k1 = k1
    k2 = k2
    k3 = k3
    c1 = c1
    c2 = c2
    None = None
    Members = {m1, m2}
    Addrs = {m1, m2}
    AddrOf <- OwnAddr
    Clusters = {c1, c2}
    Conns = {k1, k2, k3}
    Seeds = {m1, m2}
    MaxShutdown = 2
    MaxDisconnects = 1
SYMMETRY Symmetry
SPECIFICATION Spec
CHECK_DEADLOCK FALSE
INVARIANTS   OneCluster DeadIsNoticed OpenIsOwned
