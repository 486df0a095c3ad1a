\* Component configurations given and taken back.
SPECIFICATION FairSpec
CONSTANTS
    Nil = Nil
    Unused = Unused
    Deleted = Deleted
    Workers = {"w1"}
    Ids = {1}
    Descriptions = {}
    Addresses = {}
    Configurations = {"c1"}
    MasterLists = {}
    MisfitMasters = {}
    Applied <- WithConfigurations
    Found <- FoundOne
    MaxEdits = 2
    MaxFaults = 0
    LagBounded = TRUE
CHECK_DEADLOCK FALSE
PROPERTIES
    ConfigurationsFollowSpec
