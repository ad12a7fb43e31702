SPECIFICATION Behaviour
CONSTANTS
    Calls = {c1, c2}
    WiFi = {c2}
    Free = Free
    Out = {o}
    In = {i}
    Killers = {k}
    Shared = TRUE
    MaxCalls = 1
    MaxLost = 1
    MaxRefresh = 1
    Channels = 1
    Rounds = 2
    MaxTroubles = 1
    EapRounds = 3
    Challenges = 2
INVARIANTS
    LineHeld
    OutgoingTold
    SessionSound
CHECK_DEADLOCK FALSE
