SPECIFICATION Spec
CONSTANTS
    KeyCount = 1
    Versions = {1, 2}
    MutationIds = {m1, m2}
    NoMutation = none
    Payloads = {p}
    Absent = absent
    p = p
    m1 = m1
    m2 = m2
    q1 = q1
    q2 = q2
    Requests = {q1}
    Worker = worker
    Main = main
    Sent <- OnlyOne
    Operations = {"upsert", "delete"}
    Faults = {}
    MaxOps = 2
    MaxCrashes = 0
INVARIANT DeletedIsNotIndexed
CHECK_DEADLOCK FALSE
