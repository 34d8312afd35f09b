SPECIFICATION Spec
CONSTANTS
    u1 = u1
    u2 = u2
    u3 = u3
    u4 = u4
    u5 = u5
    App = {}
    Object = {u1, u2, u3}
    Instance = {}
    Zedmanager = {}
    MaxNum = 2
INVARIANT RestartWorks
