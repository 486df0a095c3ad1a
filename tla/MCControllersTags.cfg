\* Security groups and their tags, without edits and faults.
SPECIFICATION FairSpec
CONSTANTS
    Nil = Nil
    Unused = Unused
    Deleted = Deleted
    Workers = {"w1"}
    Ids = {1, 2}
    Values = {"a", "b"}
    TagKeys = {"key"}
    TagValues = {"v1", "v2"}
    MaxEntries = 2
    Cases <- GroupTags
    MaxEdits = 0
    MaxFaults = 0
    LagBounded = TRUE
CHECK_DEADLOCK FALSE
PROPERTIES
    AcceptedObjectCreated
