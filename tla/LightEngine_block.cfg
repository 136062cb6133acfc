SPECIFICATION FairSpec
CONSTANTS
    None = None
    MaxLight = 3
    Cells <- AllCells
    Setups <- LightSetups
 
PROPERTIES StopReturns
CHECK_DEADLOCK FALSE
