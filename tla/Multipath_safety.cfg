SPECIFICATION Spec
CONSTANTS
    Paths <- TwoPaths
    LocalPort = 2
    RemotePort = 1
    FrameBytes = 5
    SegmentSize = 3
    HeaderLen = 1
    PaceBytes = 3
    Garbage <- Leftovers
    NetCap = 1
    MaxFrames = 2
INVARIANTS
    MultipathTypeOK
    OnePacer
    EveryPathSendsAll
    AssertionsHold
PROPERTIES
    EveryPathConnects
    QueuesDrain
CHECK_DEADLOCK FALSE
