SPECIFICATION ReceiverSpec
CONSTANTS
    MaxFrame = 8
    KeyFrames <- Groups
    BigFrames <- Pairs
    Size = 4
    MaxNack = 2
    NackNum = 2
    MaxRestarts = 1
INVARIANTS
    ReceiverTypeOK
    SlotsHoldTheirFrame
    NothingWantedIsAcknowledged
    LossListIsExact
PROPERTIES
    PlaysForward
