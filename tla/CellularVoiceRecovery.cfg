CONSTANTS
    Id = {1, 2}
    MaxCalls = 2
    MaxTroubles = 2
SPECIFICATION Spec
PROPERTIES
    RecoverySparesNewCalls
CHECK_DEADLOCK FALSE
