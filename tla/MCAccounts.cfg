SPECIFICATION Spec
CONSTANTS
    red = red
    blue = blue
    c1 = c1
    c2 = c2
    NoTenant = NoTenant
    NoCall = NoCall
    Tenant <- MCTenant
    Call <- MCCall
    MaxAdmin = 2
    MaxUser = 3
SYMMETRY MCSymmetry
INVARIANTS
    TypeOK
    CacheIsOfSession
    PasswordsWereValid
    MailedMustChange
PROPERTIES
    NewRowKept
CHECK_DEADLOCK FALSE
