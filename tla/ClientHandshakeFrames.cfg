SPECIFICATION Spec
CONSTANTS
    MaxFrames = 3
    Chunk = 3
    Cap = 3
    MaxTicks = 4
INVARIANT FramesForwarded
CHECK_DEADLOCK FALSE
