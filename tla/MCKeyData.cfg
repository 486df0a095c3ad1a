\* From any key imported: convergence and deletion under fairness.
SPECIFICATION FairSpec
CONSTANTS
    Nil = Nil
    Unused = Unused
    Deleted = Deleted
    w1 = w1
    w2 = w2
    Applied <- BareSpecs
    Workers = {w1}
    Ids = {1, 2, 3}
    KeyAliases = {"a"}
    Descriptions = {}
    Realms = {"r"}
    EnabledValues = {TRUE}
    RotationValues = {TRUE, FALSE}
    RotationIntervals = {90, 365}
    TagKeys = {}
    TagValues = {}
    KeyStates = {"WaitingForEnable", "Enabled", "Disabled", "PendingDeletion", "WaitingForImport"}
    KeyOrigins = {"kms", "external"}
    MaxEdits = 0
    MaxFaults = 1
    LagBounded = TRUE
CHECK_DEADLOCK FALSE
INVARIANT
    KeyTypeOK
PROPERTIES
    KeySettingsKept
    KeyConverges
    KeyDeletionCompletes
