CONSTANTS
    None = None
    Absent = Absent
    Tenant = tenant
    Request <- MCRequest
    Bad = Bad
    s1 = s1
    s2 = s2
    Source = {s1, s2}
    Asked = {{s1, s2}}
    Cap = {c1}
    Declared <- MCDeclared
    Chunks = 1
    MaxChange = 1
    MaxCalls = 3
    MaxSpoil = 1
    Spoil <- MCSpoil
SPECIFICATION MCSpec
INVARIANTS
    ConnectionGuarded
    ResultsBound
    PresenterExact
PROPERTIES
    CallsEnd
CHECK_DEADLOCK FALSE
