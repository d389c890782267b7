SPECIFICATION Spec
CONSTANTS
    FixedKeys = {}
    RoleKeys = {}
    NameKeys = {}
    OtherKeys = {custom}
    Values = {v1, v2}
    Own = own
    NoTag = NoTag
    CacheLags = FALSE
    MaxEdits = 2
    MaxFaults = 0
PROPERTY TagsSettle
