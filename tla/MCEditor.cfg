SPECIFICATION Spec
CONSTANTS
    c1 = c1
    c2 = c2
    Call <- MCCall
    MaxEdits = 2
    MaxOps = 3
SYMMETRY Symmetry
INVARIANTS
    TypeOK
    WorkIsSafe
    EditorShowsWork
CHECK_DEADLOCK FALSE
