SPECIFICATION Spec
CONSTANTS
    KeyCount = 2
    Versions = {0, 1, 2}
    MutationIds = {}
    NoMutation = none
    Payloads = {p}
    Absent = absent
    p = p
    Fault = "open"
    StartLogs <- FreshLogs
    StartSnapshots <- FreshSnapshots
    MaxLog = 3
INVARIANTS
    DurableAck
