SPECIFICATION FairSpec
CONSTANTS
    c1 = c1
    c2 = c2
    Chunks = {c1, c2}
    None = None
    w1 = w1
    w2 = w2
    Workers = {w1, w2}
    Graphics = Graphics
    Setups <- AnySetup
INVARIANTS VersionsAreFloors
PROPERTIES ViewsCatchUp BordersCatchUp
CHECK_DEADLOCK FALSE
