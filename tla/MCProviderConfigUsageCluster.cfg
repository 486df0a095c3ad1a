SPECIFICATION Spec
CONSTANTS
    Nil = Nil
    m1 = m1
    m2 = m2
    Resources = {m1, m2}
    Names = {"default"}
    MaxEdits = 2
CHECK_DEADLOCK FALSE
PROPERTY
    ClusterProviderConfigHeld
