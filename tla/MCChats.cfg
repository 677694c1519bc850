SPECIFICATION Spec
CONSTANTS
    a1 = a1
    a2 = a2
    l1 = l1
    l2 = l2
    Ask <- MCAsk
    Load <- MCLoad
    PageSize = 2
    MaxQuestions = 2
    MaxOps = 3
    MaxSlips = 1
SYMMETRY MCSymmetry
INVARIANTS
    TypeOK
    InputNeverStuck
    OrphansOnlyByRace
    ShownIsTail
    NothingHidden
CHECK_DEADLOCK FALSE
