SPECIFICATION FairSpec
CONSTANTS
    Tasks = {c1, c2, c3}
    Workers = {w1, w2}
    Capacity = 2
    Embedders = {e1}
    EmbedCapacity = 1
    Backlog = 1
INVARIANTS
    TypeOK
    EachTaskIsSomewhere
    NoneLost
    NoLostWakeup
    RequestsEndBeforeStop
    NoneTurnedAwayByStop
PROPERTIES
    AcceptedIsAnswered
    StopGetsThrough
CHECK_DEADLOCK FALSE
