SPECIFICATION Spec
CONSTANTS
    u = u
    root = root
    d = d
    c1 = c1
    c2 = c2
    User <- MCUser
    Document <- MCDocument
    Super <- MCSuper
    Call <- MCCall
    MaxCalls = 5
SYMMETRY Symmetry
INVARIANTS
    TypeOK
    OnePending
    ApprovedHasPermission
    AccessIsLastGrant
CHECK_DEADLOCK FALSE
