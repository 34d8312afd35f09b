SPECIFICATION Spec
CONSTANTS
    k1 = k1
    k2 = k2
    v1 = v1
    s1 = s1
    None = None
    Key = {k1, k2}
    Val = {v1}
    Sub = {s1}
    SockBuf = 2
    MaxOps = 4
    MaxCrash = 0
PROPERTIES RestartedAfterItems
CHECK_DEADLOCK FALSE
