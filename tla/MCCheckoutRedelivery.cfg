CONSTANTS
    Invoices = {i1}
    Charges = {c1}
    Transfers = {}
    Tasks = {p1, p2}
    Terms = {v1}
    NoTerms = NoTerms
    NoInvoice = NoInvoice
    NoCharge = NoCharge
    Free = Free
    OneDelivery = FALSE
    CloseMayFail = FALSE
    MaxFaults = 0
    MaxRestarts = 0
SPECIFICATION Spec
INVARIANT SaleKeepsItsCharge
