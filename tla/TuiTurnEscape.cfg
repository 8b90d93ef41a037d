SPECIFICATION Spec
CONSTANTS
    MaxTurns = 2
INVARIANT CancelAskedTwice
CHECK_DEADLOCK FALSE
