SPECIFICATION FairSpec
CONSTANTS
    Positions = {anchored, lone}
    Anchored = {anchored}
    Faces = {up, down}
    None = None
    Setups <- AnySetups
    MaxCatchup = 2
    MaxLate = 2
INVARIANTS LightUpdatesChain NoOrphanTicks FacesAreNotForgotten
PROPERTIES CommandsAreServed
CHECK_DEADLOCK FALSE
