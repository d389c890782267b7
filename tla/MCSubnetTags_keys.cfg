SPECIFICATION Spec
CONSTANTS
    FixedKeys = {role}
    RoleKeys = {elb}
    NameKeys = {Name}
    OtherKeys = {custom}
    Values = {v1}
    Own = own
    NoTag = NoTag
    CacheLags = TRUE
    MaxEdits = 2
    MaxFaults = 1
INVARIANT TypeOK
PROPERTIES OperatorKeepsKeys KeysSettle FixedTagsHeal AddedKeyArrives SettlesOrSwaps
