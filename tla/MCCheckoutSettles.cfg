CONSTANTS
    Invoices = {i1}
    Charges = {c1, c2}
    Transfers = {}
    Tasks = {p1, p2}
    Terms = {v1}
    NoTerms = NoTerms
    NoInvoice = NoInvoice
    NoCharge = NoCharge
    Free = Free
    OneDelivery = FALSE
    CloseMayFail = TRUE
    MaxFaults = 2
    MaxRestarts = 0
SPECIFICATION FairSpec
INVARIANT OneOrderPerInvoice
PROPERTY EveryUpdateSettles
