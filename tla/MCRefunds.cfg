\* One order paid in Stars, one paid by transfer; two tasks, two faults.
CONSTANTS
    o1 = o1
    o2 = o2
    t1 = t1
    t2 = t2
    NoToken = NoToken
    NoJob = NoJob
    PaidOrders = {o1, o2}
    Refused = {}
    Stars = {o1}
    Tasks = {t1, t2}
    Tokens = {1, 2, 3, 4, 5, 6}
    MaxFaults = 2
SPECIFICATION Spec
SYMMETRY TaskSymmetry
INVARIANTS
    TypeOK
    CompletionIsBacked
    OneOwner
    AccessFollowsMoney
    ReturnedMoneyIsTraceable
PROPERTY CompletedIsFinal
