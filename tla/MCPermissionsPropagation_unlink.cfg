SPECIFICATION Spec
CONSTANTS
    i1 = i1
    i2 = i2
    i3 = i3
    Items = {i1, i2, i3}
    Existing = {i1, i2, i3}
    Linked <- Chain
    NoGrant = NoGrant
    Grants <- OneGrant
    Kinds <- OneKind
    MaxServices = 2
INVARIANT FormerChildrenAreUpToDate
CHECK_DEADLOCK FALSE
