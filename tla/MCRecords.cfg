\* Three bank details, two clients and two members of staff, six operations; the other bounds
\* are in the module.
CONSTANTS
    Clients = {c1, c2}
    Staff = {s1, s2}
    MaxMethods = 3
    MaxSteps = 6
SPECIFICATION RecordsSpec
SYMMETRY Symmetry
INVARIANTS
    OneUsableDefault
    OffersAreConsistent
    BooksAgree
    SentOnceAsShown
    AnswersFindTheirPrompt
    PagesAreTheList
    RolesFollowTheList
    ReadersAreSafe
PROPERTIES
    OnlyAsEntitled
\* Rows, months and operations are bounded: when they are used up a behaviour ends.
CHECK_DEADLOCK FALSE
