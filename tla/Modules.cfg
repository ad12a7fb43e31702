SPECIFICATION Behaviour
CONSTANTS
    None = None
    Requested = 3
    Restarts = {r1}
    Enables = {e1}
    Cards = {a, b}
    Target = b
    MaxGen = 2
    Nets = {n1, n2}
    Limit = 1
    MaxFp = 1
    Outages = 4
    RegistrarLimit = 1
    MaxSends = 1
    MaxFaults = 2
    Workers = {w1, w2}
    Table = {t1, t2}
    MaxTroubles = 2
    RouteErrors = 1
    Accounts = {a1, a2}
    Phones = {p1}
    MaxCred = 2
    MaxWrites = 2
INVARIANTS
    WorksAlone
    Supervised
    LeaseKept
    RoutesOwned
    AccountsServed
PROPERTIES
    UnconfirmedStays
CHECK_DEADLOCK FALSE
