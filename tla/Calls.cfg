SPECIFICATION Behaviour
CONSTANTS
    a1 = a1
    a2 = a2
    m1 = m1
    m2 = m2
    None = None
    Accounts = {a1, a2}
    Modules = {m1, m2}
    Allocations <- NoEdits
    MaxId = 4
    MaxRevision = 1
SYMMETRY Symmetry
INVARIANTS
    ReservationsExact
    CallsWellFormed
    VoiceHeard
PROPERTIES
    WinnerKept
CHECK_DEADLOCK FALSE
