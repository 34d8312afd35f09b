SPECIFICATION Spec
CONSTANTS
    a = a
    b = b
    Object = {a, b}
    Size <- MCSize
    MaxSpace = 4
    Wrap = 32
    MaxRef = 2
    MaxConfigs = 5
    MaxFails = 1
CHECK_DEADLOCK FALSE
INVARIANT DiskBounded
