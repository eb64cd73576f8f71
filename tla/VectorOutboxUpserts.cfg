SPECIFICATION Spec
CONSTANTS
    KeyCount = 2
    Versions = {1, 2}
    MutationIds = {m1, m2}
    NoMutation = none
    Payloads = {p}
    Absent = absent
    p = p
    m1 = m1
    m2 = m2
    q1 = q1
    q2 = q2
    Requests = {q1, q2}
    Worker = worker
    Main = main
    Sent <- OldAndNew
    Operations = {"upsert", "stop", "reindex"}
    Faults = {"embed"}
    MaxOps = 3
    MaxCrashes = 0
SYMMETRY ThreadSymmetry
INVARIANT TypeOK
INVARIANT UpsertedIsFindable
INVARIANT TasksOnDisk
PROPERTY ReindexRepairs
CHECK_DEADLOCK FALSE
