SPECIFICATION Behaviour
CONSTANTS
    None = None
    Msgs = {m1}
    MaxFaults = 4
    MaxEvents = 2
    Resources = {r1}
    Hooks = {h1}
    MaxAttempts = 2
    MaxCalls = 1
INVARIANTS
    SentOnce
    MessagesSound
    HookSound
PROPERTIES
    RowsKept
    EverythingEnds
CHECK_DEADLOCK FALSE
