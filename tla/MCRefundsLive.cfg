\* One order paid in Stars, two tasks, two faults: does its refund settle?
CONSTANTS
    o1 = o1
    t1 = t1
    t2 = t2
    NoToken = NoToken
    NoJob = NoJob
    PaidOrders = {o1}
    Refused = {}
    Stars = {o1}
    Tasks = {t1, t2}
    Tokens = {1, 2, 3, 4, 5, 6}
    MaxFaults = 2
SPECIFICATION FairSpec
PROPERTIES
    EveryRefundSettles
