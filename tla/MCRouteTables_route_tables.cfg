SPECIFICATION FairSpec
CONSTANTS
    NumSubnets = 2
    MaxEdits = 2
    MaxFaults = 1
    None = None
INVARIANTS
    TypeOK
    OneTablePerSubnet
    ReadyMeansServed
PROPERTIES
    UntaggedTablesKept
    SeenAssociationsKept
    ImplementsRouteTableSlots
    TablesSettle
    TablesGo
