SPECIFICATION Spec
CONSTANTS
    Workers = {w1, w2}
    Setups <- AnySetups
INVARIANTS NoMissedWake
PROPERTIES FenceBeforeFrame FramesGoOn StopReturns
CHECK_DEADLOCK FALSE
