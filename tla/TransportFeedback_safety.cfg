\* The model stops when MaxSeq transmissions were made and the clock has run out.
CHECK_DEADLOCK FALSE
SPECIFICATION Spec
CONSTANTS
    Half = 3
    MaxSeq = 9
    MaxClock = 2
    Interval = 1
    BackWindow = 1
    MaxSamples = 3
    MaxDrop = 1
    StampMod = 8
    LossWindow = 1
    LossDistance = 3
    HistoryTime = 1
    MaxFaults = 2
    MsgCap = 2
INVARIANTS
    NumbersAreTrue
    NoneSkipped
    HistoryIsRecent
PROPERTIES
    LossNotOverstated
    ImplementsReports
