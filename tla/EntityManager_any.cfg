SPECIFICATION Spec
CONSTANTS
    Size = 2
    RangeXZ = 16
    RangeY = 8
    Unit = 2000
    Margin = 2
    MoveSpeed = 900
    JumpVelocity = 800
    EyeHeight = 3240
    MaxPitch = 1
    ItemMaxAge = 2
    Threshold = 200
    Setups <- AnySetups
INVARIANTS
    EntitiesAreConsistent
    RaysFindFirst
PROPERTIES
    BodiesMoveByTheRules
CHECK_DEADLOCK FALSE
