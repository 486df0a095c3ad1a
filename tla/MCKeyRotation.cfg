\* Rotation the user switches off.
SPECIFICATION FairSpec
CONSTANTS
    Nil = Nil
    Unused = Unused
    Deleted = Deleted
    w1 = w1
    w2 = w2
    Applied <- AllSpecs
    Workers = {w1}
    Ids = {1}
    KeyAliases = {"a"}
    Descriptions = {}
    Realms = {"r"}
    EnabledValues = {TRUE}
    RotationValues = {TRUE, FALSE}
    RotationIntervals = {365}
    TagKeys = {}
    TagValues = {}
    KeyStates = {"WaitingForEnable", "Enabled", "PendingDeletion"}
    KeyOrigins = {"kms"}
    MaxEdits = 1
    MaxFaults = 0
    LagBounded = TRUE
CHECK_DEADLOCK FALSE
PROPERTY
    RotationFollowsSpec
