SPECIFICATION Spec
CONSTANTS
    p1 = p1
    p2 = p2
    acct = acct
    Phones = {p1, p2}
    Owner <- OneAccount
    Nobody = Nobody
SYMMETRY Interchangeable
CHECK_DEADLOCK FALSE
INVARIANTS
    LineHeld
    PhonesTold
PROPERTIES
    AnsweredForWinner
