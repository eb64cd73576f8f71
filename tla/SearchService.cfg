SPECIFICATION FairSpec
CONSTANTS
    KeyCount = 3
    Versions = {1, 2}
    MutationIds = {m}
    NoMutation = NoMutation
    Payloads = {text}
    Absent = Absent
    m = m
    text = text
    Clients = {c1, c2}
    Stripes = {1, 2}
    StripeOf <- KeyStripes
    CollectionCount = 2
    CollectionOf <- KeyCollections
    Free = Free
    NList = 1
    TrainingThreshold = 2
    Oversampling = 4
    NoFile = NoFile
    OldMetadata = NoFile
    OldIndex <- NoIndex
    QueueCapacity = 1
    TopK = 2
    FallbackLimit = 1
    Seeds <- TwoSeeds
    DocumentKeys = {1}
    Documents <- OneDocument
    SentBatches <- TwoBatches
    MaxRequests = 2
    MaxStarts = 2
INVARIANTS
    TypeOK
    KnownIsKept
    ScoresAreOwn
    StoredIsReadable
PROPERTIES
    ImplementsDurableMap
    RequestsEnd
CHECK_DEADLOCK FALSE
