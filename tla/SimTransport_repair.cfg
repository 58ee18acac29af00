SPECIFICATION FairTransport
CONSTANTS
    MaxFrame = 3
    KeyFrames <- Groups
    BigFrames <- Pairs
    Size = 4
    MaxNack = 3
    NackNum = 2
    MaxRestarts = 0
    MaxFaults = 2
    AckCap = 1
    Patient = TRUE
PROPERTY FramesComeOut
