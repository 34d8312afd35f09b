SPECIFICATION CloudSpec
CONSTANTS
    imga = imga
    app = app
    zedagent = zedagent
    guest = guest
    Key = {imga, app}
    Source = {zedagent, guest}
    ImageOf <- MCImageOf
    Buf = {1, 2, 3}
    LogMax = 2
    MaxLines = 2
    MaxBufs = 3
    MaxCrash = 1
    MaxIntfs = 1
    MaxAddrs = 1
    Faults = {"dial", "other"}
    t1 = t1
    t2 = t2
INVARIANTS InOrder
PROPERTIES  EveryLookupAnswered PoolDieReturns
CHECK_DEADLOCK FALSE
