\* The model stops when every call that MaxCid allows has been made and ended.
CHECK_DEADLOCK FALSE
SPECIFICATION TimedSpec
CONSTANTS
    None = None
    Endpoint = {a, b}
    Callers = {a, b}
    Setters = {a}
    Mortal = {b}
    PingTries = 2
    CommandTries = 2
    CommandTick = 2
    InterruptPings = 1
    MaxStall = 1
    MaxSilence = 0
    MaxCid = 2
    MaxDups = 0
    NetCap = 2
PROPERTIES
    PeerLossDetected
    InterruptResolves
