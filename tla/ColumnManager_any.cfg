SPECIFICATION FairSpec
CONSTANTS
    p1 = p1
    p2 = p2
    Pos = {p1, p2}
    None = None
    Capacities = {1, 2}
    MayPin = {TRUE, FALSE}
    MaxJobs = 2
    RegionOf <- OneRegion
    Setups <- AnySetups
INVARIANTS MemoryIsConsistent EditsAreSafe
PROPERTIES ImplementsStore EditsReachDisk
CHECK_DEADLOCK FALSE
