SPECIFICATION Spec
CONSTANT NumSubnets = 2
INVARIANTS
    TypeOK
    NoticedInTime
    WaitsInBetween
