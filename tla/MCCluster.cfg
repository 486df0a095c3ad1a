\* One worker, an edit or a foreign change, and a fault.
SPECIFICATION FairSpec
CONSTANTS
    Nil = Nil
    Unused = Unused
    Deleted = Deleted
    Workers = {"w1"}
    Ids = {1, 2}
    Descriptions = {"d"}
    Addresses = {"a1", "a2"}
    Configurations = {"c1"}
    MasterLists = {"m1", "m2"}
    MisfitMasters = {"m2"}
    Applied <- EachSetting
    Found <- FoundSome
    MaxEdits = 1
    MaxFaults = 1
    LagBounded = TRUE
CHECK_DEADLOCK FALSE
INVARIANTS
    OneResourcePerObject
    NoOrphan
    ClusterTypeOK
PROPERTIES
    KeepsPromise
    ClusterSettingsKept
    ClusterConverges
    ClusterDeletionCompletes
