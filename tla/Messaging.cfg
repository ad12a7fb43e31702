SPECIFICATION Behaviour
CONSTANTS
    n1 = n1
    n2 = n2
    i1 = i1
    i2 = i2
    i3 = i3
    t1 = t1
    t2 = t2
    None = None
    Ids = {n1, n2}
    Incoming = {x1}
    MaxUsed = 1
    MaxSessions = 2
    MaxEvents = 2
    Hashes = {h1}
    Peers = {t1, t2}
    Writers = {w1, w2}
    QueueLimit = 1
    PageSize = 1
    MaxRevision = 5
    Refs = 2
    Parts = 2
    Deliveries = {d1}
    Downloads = {u1, u2, u3}
    Cache = 2
    MaxCopies = 2
    Attempts = {1, 2}
    Limits = {0, 1}
    Grace = 1
    MaxPosts = 2
    MaxEpoch = 2
    MaxTroubles = 1
SYMMETRY Symmetry
INVARIANTS
    BridgeSound
    Mirrored
    SmsSound
    AlertsSound
CHECK_DEADLOCK FALSE
