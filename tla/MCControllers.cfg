\* Every kind and field, one worker, an edit or a foreign change, a fault.
SPECIFICATION FairSpec
CONSTANTS
    Nil = Nil
    Unused = Unused
    Deleted = Deleted
    Workers = {"w1"}
    Ids = {1, 2}
    Values = {"a", "b"}
    TagKeys = {"key"}
    TagValues = {"v1", "v2"}
    MaxEntries = 2
    Cases <- AllCases
    MaxEdits = 1
    MaxFaults = 1
    LagBounded = TRUE
CHECK_DEADLOCK FALSE
INVARIANTS
    OneResourcePerObject
    NoOrphanUnlessAstray
    ResourcesTypeOK
PROPERTIES
    KeepsPromise
    SettingsKept
    UnsetButPortLeftAlone
    AssociationsKept
    ResourcesConverge
    ResourcesDeletionCompletes
