SPECIFICATION Behaviour
CONSTANTS
    n1 = n1
    u1 = u1
    None = None
    Requested = 2
    Restarts = {r1}
    Enables = {e1}
    Cards = {a, b}
    Target = b
    MaxGen = 2
    Nets = {n1, n2}
    Limit = 1
    MaxFp = 1
    Outages = 3
    RegistrarLimit = 1
    MaxSends = 1
    Workers = {u1, u2}
    Table = {t1, t2}
    MaxTroubles = 1
    RouteErrors = 1
    Accounts = {a1}
    Phones = {p1}
    MaxCred = 2
    MaxWrites = 1
PROPERTIES
    EverythingEnds
CHECK_DEADLOCK FALSE
