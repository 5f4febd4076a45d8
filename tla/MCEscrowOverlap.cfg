SPECIFICATION Spec
CONSTANTS
    j1 = j1
    h1 = h1
    h2 = h2
    p1 = p1
    p2 = p2
    s1 = s1
    s2 = s2
    j2 = j2
    p3 = p3
    None = None
    FeePercent = 10
    Jobs = {j1}
    Helpers = {h1, h2}
    PaymentIds = {p1, p2}
    Slots = {s1, s2}
    Amounts <- OnePrice
    Serialised = {}
INVARIANTS
    TypeOK
    PaidBeforeWork
    MoneyTrail
    FundedOpensChat
SYMMETRY Symmetry
CHECK_DEADLOCK FALSE
