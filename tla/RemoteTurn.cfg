SPECIFICATION FairSpec
CONSTANTS
    MaxCalls = 3
    MaxFrames = 1
    UpCap = 2
    DownCap = 2
    Stops = TRUE
    Overlong = TRUE
INVARIANTS
    TypeOK
    FramesAreOwn
    WaitIsServed
    ClearNeverMidTurn
PROPERTIES
    ImplementsTurnService
    CallReturns
