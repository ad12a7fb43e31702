SPECIFICATION Behaviour
CONSTANTS
    a1 = a1
    m1 = m1
    None = None
    Accounts = {a1}
    Modules = {m1}
    Allocations <- ReceiveChoices
    MaxId = 3
    MaxRevision = 2
    Phones = {p1}
    Nobody = Nobody
    Securities = {"optional", "required"}
    Candidates = 2
    Fallback = TRUE
    MaxChallenges = 2
    MaxFaults = 3
    MaxRefresh = 2
INVARIANTS
    Authorized
    CurrentCredentials
    RegistrationSound
PROPERTIES
    AnswersBind
    EverythingEnds
CHECK_DEADLOCK FALSE
