SPECIFICATION Spec
CONSTANTS
    Packets <- Two
    SizeOf <- Sizes
    Rates <- TwoRates
    Steps <- Heartbeat
    MaxAge = 270
    MaxQue = 250
    Window = 500
    MinElapsed = 5
    MaxElapsed = 30
INVARIANTS
    TypeOK
    QueueIsConsistent
    TotalIsUnsent
    BurstIsBounded
PROPERTIES
    ImplementsBag
    NothingWaitsTooLong
