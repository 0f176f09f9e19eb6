\* One order and one refused charge, both paid in Stars; one fault.
\* Two administrators move the hour of the jobs, whose other bounds are in the module.
CONSTANTS
    o1 = o1
    c1 = c1
    t1 = t1
    t2 = t2
    NoToken = NoToken
    NoJob = NoJob
    PaidOrders = {o1}
    Refused = {c1}
    Stars = {o1, c1}
    Tasks = {t1, t2}
    Tokens = {1, 2, 3, 4, 5, 6}
    MaxFaults = 1
    Admins = {a1, a2}
SPECIFICATION DailySpec
SYMMETRY Symmetry
INVARIANT JobsKeepTheirDays
PROPERTY KeepsPromise
\* A connection that was closed stays closed.
CHECK_DEADLOCK FALSE
