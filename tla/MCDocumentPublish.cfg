SPECIFICATION Spec
CONSTANTS
    s1 = s1
    s2 = s2
    Slot <- MCSlot
    MaxOps <- MCMaxOps
SYMMETRY MCSymmetry
INVARIANTS
    TypeOK
    PublishedIsIndexed
    PublishedHasRevision
CHECK_DEADLOCK FALSE
