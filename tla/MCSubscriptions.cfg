\* Two orders or gifts of access, two rows, periods of one and two days, one gift
\* of days, and a clock that sees the end of all of it.
CONSTANTS
    Orders = {o1, o2}
    Subs = {s1, s2}
    NoSub = NoSub
    Days = {1, 2}
    MaxTime = 6
    MaxGifts = 1
SPECIFICATION Spec
SYMMETRY Symmetry
INVARIANTS
    TypeOK
    OneRunning
    EndedAccessIsGone
    DaysAddUp
PROPERTY SweepSparesPaidTime
\* At the last day, with the customer erased, nothing is left to do.
CHECK_DEADLOCK FALSE
