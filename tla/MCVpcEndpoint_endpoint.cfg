SPECIFICATION FairSpec
CONSTANTS
    main = main
    t1 = t1
    t2 = t2
    Tables = {main, t1, t2}
    Main = main
    Empty = Empty
    MaxEdits = 3
    MaxFaults = 2
INVARIANTS
    TypeOK
    NoNeedlessModify
PROPERTIES
    EndpointCovers
    EndpointGoes
