SPECIFICATION AgentsSpec
CONSTANTS
    k1 = k1
    k2 = k2
    v1 = v1
    s1 = s1
    None = None
    Key = {k1, k2}
    Val = {v1}
    Sub = {s1}
    SockBuf = 2
    MaxOps = 4
    MaxCrash = 1
    o0 = o0
    o1 = o1
    Version = {o0, o1}
    FirstVersion = o0
    Wanted <- MCWanted
    MaxBaseOsCount = 2
    MaxOsChanges = 2
    MaxOutages = 1
INVARIANTS TypeOK NoUpdateLost  CompleteAfterSnapshot
PROPERTIES ChannelAgrees ChannelRestarted UpdateTestEnds
CHECK_DEADLOCK FALSE
