SPECIFICATION FairSpec
CONSTANTS
    NodeCount = 4
    VirtualNodes = {1, 2}
    Slots = {0, 1, 2, 3}
    RingSize = 16
    Position <- Points
    SlotPosition <- SlotPoints
    Replication = 2
    Self = 1
    StaticNodes = {1, 2}
    Unreadable = {4}
    MaxChanges = 3
    MaxFaults = 2
INVARIANTS
    TypeOK
    LeaseTroubleStaysVisible
    StoppedIsQuiet
PROPERTIES
    RingSettles
    StopEnds
    SlotsMoveOnlyWithNodes
CHECK_DEADLOCK FALSE
