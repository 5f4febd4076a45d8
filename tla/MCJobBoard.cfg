SPECIFICATION BoardSpec
CONSTANTS
    h1 = h1
    h2 = h2
    p1 = p1
    p2 = p2
    j1 = j1
    j2 = j2
    s1 = s1
    s2 = s2
    None = None
    Helpers = {h1, h2}
    PaymentIds = {p1, p2}
    Jobs = {j1, j2}
    Slots = {s1, s2}
    Budgets = {1}
    Offers = {2}
    MaxRequests = 12
    Regimes <- BoardRegimes
INVARIANTS
    HiringTypeOK
    CustomerAgreedPrice
    RejectedNotHired
    NoneLeftPending
    JobWorkTypeOK
    NumbersDistinct
    WaitingHasOnePending
    CompletedIsSettled
    StatsAgree
SYMMETRY Symmetry
CHECK_DEADLOCK FALSE
