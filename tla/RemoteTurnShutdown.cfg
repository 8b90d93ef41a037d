SPECIFICATION Spec
CONSTANTS
    MaxCalls = 3
    MaxFrames = 1
    UpCap = 2
    DownCap = 2
    Stops = TRUE
    Overlong = FALSE
INVARIANT GoingAwayIsAnnounced
