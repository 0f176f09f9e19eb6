\* Files of each version with two crashes and an error; two receipts with a crash, an
\* error and three moves; two handlers on three profiles.
CONSTANTS
    Orders = {o1, o2}
    Uploads = {u1, u2}
    None = none
    MaxCrashes = 1
    MaxErrors = 1
    MaxMoves = 3
    Profiles = {p1, p2, p3}
    Accounts = {a1, a2}
    Staff = {p1, p2}
    Gifted = {p3}
    Tasks = {t1, t2}
    Nobody = nobody
SPECIFICATION FairProgressSpec
INVARIANTS
    UpgradeIsFaithful
    FilesFollowTheirOrders
PROPERTIES
    NothingComesBack
    
\* A bot that serves makes no further start; when all receipts are removed nothing more happens.
CHECK_DEADLOCK FALSE
