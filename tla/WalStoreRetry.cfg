SPECIFICATION Spec
CONSTANTS
    KeyCount = 2
    Versions = {1}
    MutationIds = {m1}
    NoMutation = none
    Payloads = {p}
    Absent = absent
    p = p
    Fault = "open"
    StartLogs <- FreshLogs
    StartSnapshots <- FreshSnapshots
    MaxLog = 3
PROPERTIES
    RetryIsApplied
