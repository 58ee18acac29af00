\* The model stops when every call that MaxCid allows has been made and ended.
CHECK_DEADLOCK FALSE
SPECIFICATION FairSpec
CONSTANTS
    None = None
    Endpoint = {a, b}
    Callers = {a}
    Setters = {}
    Mortal = {}
    PingTries = 4
    CommandTries = 2
    CommandTick = 2
    InterruptPings = 2
    MaxStall = 1
    MaxSilence = 0
    MaxCid = 2
    MaxDups = 0
    NetCap = 2
PROPERTY DisconnectResolves
