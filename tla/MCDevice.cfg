SPECIFICATION DeviceSpec
CONSTANTS
    u1 = u1
    u2 = u2
    u3 = u3
    u4 = u4
    u5 = u5
    App = {u1, u2}
    Object = {u3, u4}
    Instance = {u5}
    Zedmanager = {u1}
    MaxNum = 2
    t1 = t1
    t2 = t2
    Thread = {t1, t2}
    Ctx = {1, 2}
    Item = {1, 2, 3}
    MaxFailures = 1
    d1 = d1
    d2 = d2
    usb0 = usb0
    eth0 = eth0
    Dom = {d1, d2}
    IoAdapterList <- MCIoAdapterList
    Usb = {usb0}
    Preserve = {d2}
    MaxTries = 3
    MaxDomChanges = 3
    MaxMishaps = 1
    MaxDomBoots = 1
    v0 = v0
    v1 = v1
    v2 = v2
    Version = {v0, v1, v2}
    FirstVersion = v0
    Wanted <- MCWanted
    MaxBaseOsCount = 2
    MaxOsChanges = 2
    MaxOutages = 1
    dev = dev
    app = app
    Key = {dev, app}
    Buf = {1, 2, 3, 4}
    Faults = {"dial", "lost", "400", "other"}
    MaxIntfs = 2
    MaxAddrs = 1
    MaxInfo = 4
INVARIANTS Unique StatusBacked InUseKept FullWhenSaid
    WakeupNotLost QueueServed
      AdaptersFreed
    AlwaysBoots FallbackKept OneActive UpdatingWhole
    NeverOlder NothingForgotten
