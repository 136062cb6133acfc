SPECIFICATION Spec
CONSTANTS
    Size = 2
    RangeXZ = 16
    RangeY = 8
    MaxLight = 1
    Rotations = 2
    SmallPalette = 2
    Types = {"stone", "glass", "dirt"}
    Setups <- AnySetups
INVARIANTS
    WritesAreKept
    DerivedFactsAgree
PROPERTIES
    ReloadKeeps
    ChangesAreVersioned
CHECK_DEADLOCK FALSE
