SPECIFICATION AccountsSpec
CONSTANTS
    w1 = w1
    w2 = w2
    w3 = w3
    s1 = s1
    s2 = s2
    None = None
    Passwords = {w1, w2, w3}
    MaxAttempts = 2
    Slots = {s1, s2}
    MaxRequests = 5
    Regimes <- AccountsRegimes
INVARIANTS
    CredentialsTypeOK
    GuessesBounded
    OneResetPerCode
    VerificationTypeOK
    AvatarHasFile
    DocumentsHaveFiles
    BadgeOnDecidedDocuments
PROPERTIES
    ChangeReplacesKnown
SYMMETRY Symmetry
CHECK_DEADLOCK FALSE
