SPECIFICATION FairSpec
CONSTANTS
    KeyCount = 1
    Versions = {1, 2}
    MutationIds = {m1, m2}
    NoMutation = none
    Payloads = {p}
    Absent = absent
    p = p
    m1 = m1
    m2 = m2
    q1 = q1
    q2 = q2
    Requests = {q1}
    Worker = worker
    Main = main
    Sent <- OldAndNew
    Operations = {"upsert", "delete", "put", "erase", "stop", "reindex"}
    Faults = {"embed", "open", "crash", "cut"}
    MaxOps = 3
    MaxCrashes = 1
PROPERTY TasksAreWorkedOff
CHECK_DEADLOCK FALSE
