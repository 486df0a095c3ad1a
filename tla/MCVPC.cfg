\* One worker, the settings, an edit or a foreign change, and a fault.
SPECIFICATION FairSpec
CONSTANTS
    Nil = Nil
    Unused = Unused
    Deleted = Deleted
    Workers = {"w1"}
    Ids = {1, 2}
    VpcNames = {"n"}
    Descriptions = {}
    Cidrs = {"10.0.0.0/16"}
    SecondaryCidrs = {"s1", "s2"}
    TagKeys = {"k"}
    TagValues = {"v1", "v2"}
    MaxEdits = 1
    MaxFaults = 1
    LagBounded = TRUE
CHECK_DEADLOCK FALSE
INVARIANTS
    TypeOK
    OneResourcePerObject
    NoOrphan
PROPERTIES
    KeepsPromise
    UserSettingsKept
    Converges
    DeletionCompletes
