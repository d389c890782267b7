SPECIFICATION FairSpec
CONSTANTS
    v1 = v1
    v2 = v2
    VpcIds = {v1, v2}
    NoId = NoId
    NumSubnets = 1
    UserManagedEndpoint = TRUE
    CapaRelapses = TRUE
    CacheLags = FALSE
    ModeChanges = TRUE
    MaxFaults = 1
INVARIANTS
    FinalizerGuardsVpc
PROPERTIES
    DeletionCompletes
