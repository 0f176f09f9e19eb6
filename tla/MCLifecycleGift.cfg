\* Staff give days to their own subscriptions and to each other's.
CONSTANTS
    Profiles = {p1, p2}
    Accounts = {a1, a2}
    Staff = {p1, p2}
    Gifted = {p1, p2}
    Tasks = {t1, t2}
    Nobody = nobody
SPECIFICATION Spec
SYMMETRY Symmetry
INVARIANT NoCircularWait
