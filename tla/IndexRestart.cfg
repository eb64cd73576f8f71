SPECIFICATION Spec
CONSTANTS
    KeyCount = 3
    Versions = {1, 2}
    MutationIds = {m}
    NoMutation = NoMutation
    Payloads = {text}
    Absent = Absent
    m = m
    text = text
    Clients = {c1, c2}
    Stripes = {1, 2}
    StripeOf <- KeyStripes
    CollectionCount = 2
    CollectionOf <- KeyCollections
    Free = Free
    NList = 0
    TrainingThreshold = 2
    Oversampling = 4
    NoFile = NoFile
    OldMetadata <- GapMetadata
    OldIndex <- GapIndex
    QueueCapacity = 1
    TopK = 2
    FallbackLimit = 1
    Seeds <- NoSeeds
    DocumentKeys = {1}
    Documents <- OneDocument
    SentBatches <- TwoBatches
    MaxRequests = 1
    MaxStarts = 2
PROPERTIES
    FlushKeepsAnswers
CHECK_DEADLOCK FALSE
