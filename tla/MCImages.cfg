SPECIFICATION StoreSpec
CONSTANTS
    x = x
    y = y
    App = {p, q}
    Image = {x, y}
    ImageOf <- MCImageOf
    ShaOf <- MCShaOf
    BootName <- MCBootName
    Wrap = 8
    MaxChanges = 2
    MaxBad = 1
    MaxBoots = 1
    e0 = e0
    e1 = e1
    Port = {e0, e1}
    Offer <- MCOffer
    Better = TRUE
    MaxDPCRetestCount = 1
    MaxConfigs = 3
    MaxFaults = 1
CHECK_DEADLOCK FALSE
CONSTRAINT Followed
SYMMETRY Symmetry
INVARIANTS RefCountExact DeliveredHasFile SettledAtRest
    ListOrdered NeverAsleep WaitIsHeard PanicOnlyOnRemoval
  
