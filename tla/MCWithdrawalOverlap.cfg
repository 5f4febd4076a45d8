SPECIFICATION Spec
CONSTANTS
    a1 = a1
    a2 = a2
    w1 = w1
    w2 = w2
    s1 = s1
    s2 = s2
    None = None
    WithdrawalIds = {w1, w2}
    Slots = {s1, s2}
    Amounts = {1, 2}
    Accounts = {a1, a2}
    MaxEarned = 2
    Serialised = {}
    Faults = {"transfer_unanswered", "completion_unanswered", "completion_fails", "debit_unanswered", "refund_fails"}
    MayDie = TRUE
INVARIANTS
    TypeOK
    BalanceReconciles
    LedgerMatchesStatus
PROPERTIES
    SettledIsFinal
SYMMETRY Symmetry
