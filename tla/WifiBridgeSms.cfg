SPECIFICATION Spec
CONSTANTS
    Ids = {n1}
    Incoming = {}
    MaxUsed = 2
    MaxSessions = 2
    MaxEvents = 2
INVARIANTS
    DuplicateMeansDoubt
CHECK_DEADLOCK FALSE
