CONSTANTS
    k1 = k1
    k2 = k2
    k3 = k3
    r1 = r1
    r2 = r2
    w1 = w1
    h = h
    o1 = o1
    o2 = o2
    o3 = o3
    o4 = o4
    o5 = o5
    Keys = {k1, k2, k3}
    Objs = {o1, o2, o3, o4, o5}
    Readers = {r1, r2}
    Writers = {}
    Handler = h
    MaxSize = 1
    EvictionNone = FALSE
    WithClear = FALSE
    WithCancel = FALSE
    MaxWrites = 1
SPECIFICATION Spec
CHECK_DEADLOCK FALSE
INVARIANTS TypeOK SizeBound
SYMMETRY Symmetric
VIEW LiveView
