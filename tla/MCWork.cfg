\* Three handlers, two people; the other bounds are in the module.
CONSTANTS
    Orders = {o1}
    MaxFaults = 1
    MaxRestarts = 1
    Tasks = {t1, t2, t3}
    People = {a1, a2}
    Seniors = {p1, p2}
    Nobody = nobody
SPECIFICATION WorkSpec
SYMMETRY Symmetry
INVARIANTS
    WholeOrNothing
    PaidOrdersAreServed
    LockIsKept
    RemindedOnce
PROPERTIES
    SettledStays
\* A refused order and a closed connection stay as they are, and days are bounded.
CHECK_DEADLOCK FALSE
