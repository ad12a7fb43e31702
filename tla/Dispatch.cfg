SPECIFICATION Behaviour
CONSTANTS
    None = None
    Procs = {p1, p2, p3}
    Keys = {k1, k2}
    Entries = {e1, e2, e3}
    Modules = {1, 2}
    Limit = 1
    Kinds = {"urgent", "bulk"}
    MaxLeaving = 1
INVARIANTS
    IInv
    DispatchSound
PROPERTIES
    Refines
    NobodyStarves
CHECK_DEADLOCK FALSE
