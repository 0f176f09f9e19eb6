CONSTANTS
    Invoices = {i1, i2}
    Charges = {c1}
    Transfers = {t1}
    Tasks = {p1}
    Terms = {v1, v2}
    NoTerms = NoTerms
    NoInvoice = NoInvoice
    NoCharge = NoCharge
    Free = Free
    OneDelivery = TRUE
    CloseMayFail = FALSE
    MaxFaults = 1
    MaxRestarts = 1
SPECIFICATION Spec
SYMMETRY Symmetry
INVARIANT OneWayToPay
PROPERTIES
    ApprovalIsKept
    KeepsSettlement
