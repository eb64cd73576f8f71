SPECIFICATION Spec
CONSTANTS
    KeyCount = 1
    Versions = {1, 2}
    MutationIds = {m1, m2}
    NoMutation = none
    Payloads = {p}
    Absent = absent
    a = a
    b = b
    c = c
    p = p
    m1 = m1
    m2 = m2
    Nodes = {a, b, c}
    Rings <- Onwards
    Sent <- OnlyOne
    MaxRetries = 2
    Operations = {"put"}
    Faults = {}
    MaxWrites = 1
    MaxFailures = 0
INVARIANT NewestIsKept
