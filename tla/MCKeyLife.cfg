\* Two replicas (or a stale copy), scheduled deletions, little data.
SPECIFICATION Spec
CONSTANTS
    Nil = Nil
    Unused = Unused
    Deleted = Deleted
    w1 = w1
    w2 = w2
    Applied <- BareSpecs
    Workers = {w1, w2}
    Ids = {1, 2, 3}
    KeyAliases = {"a"}
    Descriptions = {}
    Realms = {"r"}
    EnabledValues = {TRUE}
    RotationValues = {FALSE}
    RotationIntervals = {365}
    TagKeys = {}
    TagValues = {}
    KeyStates = {"WaitingForEnable", "Enabled", "PendingDeletion"}
    KeyOrigins = {"kms"}
    MaxEdits = 1
    MaxFaults = 1
    LagBounded = TRUE
CHECK_DEADLOCK FALSE
SYMMETRY Replicas
INVARIANTS
    OneUsableKey
    NoUsableOrphan
