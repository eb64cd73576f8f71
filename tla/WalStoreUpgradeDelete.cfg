SPECIFICATION Spec
CONSTANTS
    KeyCount = 2
    Versions = {0}
    MutationIds = {}
    NoMutation = none
    Payloads = {p}
    Absent = absent
    p = p
    Fault = "none"
    StartLogs <- OldLogs
    StartSnapshots <- OldSnapshots
    MaxLog = 3
PROPERTIES
    RewriteKeepsMeaning
