SPECIFICATION Spec
CONSTANTS
    x = x
    y = y
    App = {p}
    Image = {x, y}
    ImageOf <- MCImageOf
    ShaOf <- MCShaOf
    BootName <- MCBootName
    Wrap = 8
    MaxChanges = 0
    MaxBad = 0
    MaxBoots = 1
CHECK_DEADLOCK FALSE
INVARIANTS InstalledAfterBoot
