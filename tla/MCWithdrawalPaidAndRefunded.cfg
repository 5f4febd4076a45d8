SPECIFICATION Spec
CONSTANTS
    a1 = a1
    a2 = a2
    w1 = w1
    w2 = w2
    s1 = s1
    s2 = s2
    None = None
    WithdrawalIds = {w1, w2}
    Slots = {s1, s2}
    Amounts = {1, 2}
    Accounts = {a1}
    MaxEarned = 2
    Serialised = {"debit", "account"}
    Faults = {"completion_fails"}
    MayDie = FALSE
INVARIANTS
    RefundedNotPaid
SYMMETRY Symmetry
