SPECIFICATION FairSpec
CONSTANTS
    KeyCount = 2
    Versions = {1, 2}
    MutationIds = {m1}
    NoMutation = none
    Payloads = {p}
    Absent = absent
    p = p
    Fault = "midwrite"
    StartLogs <- FreshLogs
    StartSnapshots <- FreshSnapshots
    MaxLog = 2
INVARIANTS
    TypeOK
    DurableAck
    MemoryIsDisk
    LogAloneSuffices
PROPERTIES
    VersionNeverRegresses
    ImplementsDurableMap
    TornSnapshotHeals
