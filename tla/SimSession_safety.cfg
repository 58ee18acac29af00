\* The model stops when every call that MaxCid allows has been made and ended.
CHECK_DEADLOCK FALSE
SPECIFICATION Spec
CONSTANTS
    None = None
    Endpoint = {a, b}
    Callers = {a, b}
    Setters = {}
    Mortal = {}
    PingTries = 4
    CommandTries = 2
    CommandTick = 2
    InterruptPings = 2
    MaxStall = 1
    MaxSilence = 6
    MaxCid = 2
    MaxDups = 1
    NetCap = 2
SYMMETRY Hosts
INVARIANTS
    TypeOK
    CallIsConsistent
    InterruptIsHonest
    NoLateTimeout
PROPERTIES
    NoFalseTimeout
    ImplementsLifecycle
