SPECIFICATION Spec
CONSTANTS
    c1 = c1
    c2 = c2
    Call <- MCCall
    Matching <- MCMatching
    MaxDepartments = 3
    FirstRows = 1
    MaxOps = 4
SYMMETRY Symmetry
INVARIANTS
    TypeOK
    PageShowsTable
    TableIsForest
PROPERTY DeletedStaysDeleted
CHECK_DEADLOCK FALSE
