SPECIFICATION Spec
CONSTANTS
    MaxDocs <- MCMaxDocs
    MaxOps <- MCMaxOps
INVARIANTS
    TypeOK
    NoOrphanData
PROPERTIES
    RestoreRevivesOneDeletion
    LiveNeverPurged
CHECK_DEADLOCK FALSE
