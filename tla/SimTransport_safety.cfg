SPECIFICATION TransportSpec
CONSTANTS
    MaxFrame = 3
    KeyFrames <- Groups
    BigFrames <- Pairs
    Size = 2
    MaxNack = 2
    NackNum = 2
    MaxRestarts = 0
    MaxFaults = 2
    AckCap = 2
    Patient = FALSE
INVARIANTS
    WindowsFit
    NothingVanishes
PROPERTY ImplementsChannel
