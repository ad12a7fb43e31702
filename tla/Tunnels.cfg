SPECIFICATION Behaviour
CONSTANTS
    Window = 3
    MaxSequence = 5
    QueueCap = 2
    Lease = {l1, l2}
    Remote = {pcscf, peer}
    Pcscf = pcscf
    MediaLimit = 1
    Disturbances = 1
    CallNumbers = {1, 2}
    MaxCalls = 2
    Handle = {h1}
    Incoming = {i1}
    MaxNames = 2
    CellularTroubles = 3
    WifiTroubles = 2
    DomainTroubles = 2
INVARIANTS
    IInv
    PathsSound
PROPERTIES
    ImplementsFilter
    ForeignSpared
    EverythingEnds
CHECK_DEADLOCK FALSE
