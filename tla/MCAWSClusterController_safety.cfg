SPECIFICATION Spec
CONSTANTS
    v1 = v1
    v2 = v2
    VpcIds = {v1, v2}
    NoId = NoId
    NumSubnets = 2
    UserManagedEndpoint = FALSE
    CapaRelapses = FALSE
    CacheLags = FALSE
    ModeChanges = FALSE
    MaxFaults = 2
SYMMETRY VpcSymmetry
INVARIANTS
    TypeOK
    FinalizerGuardsVpc
    CapaStaysGuarded
    RecordedVpcHasDns
    OneVpcWithoutFaults
    NoStrandedRouteTable
    ReadyIsBacked
PROPERTIES
    OnlyTeardownDeletes
    VpcIdStable
    CapaGoesFirst
    ImplementsNetworkLifecycle
    ImplementsRouteTableSlots
