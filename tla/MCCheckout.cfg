CONSTANTS
    Invoices = {i1, i2}
    Charges = {c1, c2}
    Transfers = {t1}
    Tasks = {p1}
    Terms = {v1}
    NoTerms = NoTerms
    NoInvoice = NoInvoice
    NoCharge = NoCharge
    Free = Free
    OneDelivery = TRUE
    CloseMayFail = FALSE
    MaxFaults = 1
    MaxRestarts = 0
SPECIFICATION Spec
SYMMETRY Symmetry
INVARIANTS
    TypeOK
    SaleKeepsItsCharge
    OneCheckout
