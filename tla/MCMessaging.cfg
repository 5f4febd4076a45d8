SPECIFICATION MessagingSpec
CONSTANTS
    u1 = u1
    u2 = u2
    n1 = n1
    n2 = n2
    n3 = n3
    t1 = t1
    s1 = s1
    s2 = s2
    None = None
    Users = {u1, u2}
    MaxSockets = 2
    MaxItems = 2
    Receivers = {u1, u2}
    Notices = {n1, n2, n3}
    Tokens = {t1}
    Slots = {s1, s2}
    MaxRequests = 7
    Regimes <- MessagingRegimes
INVARIANTS
    DeliveryTypeOK
    OnlineHasAll
    OneConversation
    NotificationTypeOK
    LiveTokenKept
PROPERTIES
    ImplementsMailbox
CHECK_DEADLOCK FALSE
