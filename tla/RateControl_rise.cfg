SPECIFICATION Spec
CONSTANTS
    EstMin = 1
    EstMax = 2
    MaxBitrate = 750
    RaiseStep = 1
    Word = 1000000
    LowLoss = 6
    HighLoss = 26
    LimitPackets = 2
    IncreaseInterval = 2
    DecreaseInterval = 0
    StartPhase = 2
    FeedbackInterval = 2
    TimeoutIntervals = 1
    TimeoutInterval = 1
    HistorySize = 4
    Rembs = {9}
    Offers <- TwoOffers
    Defaults <- Standard
    Settings <- Other
    Losses <- TwoLosses
    Counts <- TwoCounts
    Rtts = {1}
    UpdateGap = 1
    NotifyTimer = 3
    MaxClock = 6
    MaxFeedback = 3
    MaxSets = 1
PROPERTY LittleLossNeverLowers
CHECK_DEADLOCK FALSE
