SPECIFICATION FairSpec
CONSTANTS
    Regions = {r1, r2}
    Slots = {1}
    None = None
    OpenLimits = {1, 2}
    Hazards = {}
    MaxVersion = 2
    MaxLoads = 1
    MaxStops = 1
INVARIANTS AcknowledgedIsStored
PROPERTIES ImplementsIO RequestsAreAnswered StopReturns
CHECK_DEADLOCK FALSE
