SPECIFICATION Spec
CONSTANTS
    v1 = v1
    v2 = v2
    VpcIds = {v1, v2}
    NoId = NoId
    NumSubnets = 1
    UserManagedEndpoint = FALSE
    CapaRelapses = FALSE
    CacheLags = TRUE
    ModeChanges = FALSE
    MaxFaults = 0
SYMMETRY VpcSymmetry
INVARIANTS
    CapaStaysGuarded
PROPERTIES
    OnlyTeardownDeletes
    CapaGoesFirst
