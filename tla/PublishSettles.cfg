SPECIFICATION FairSpec
CONSTANTS
    s1 = s1
    s2 = s2
    Slot <- MCSlot
    MaxOps <- MCMaxOpsLive
PROPERTIES
    PublishSettles
CHECK_DEADLOCK FALSE
