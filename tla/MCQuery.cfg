CONSTANTS
    IntMin <- MCIntMin
    IntMax = 3
    BlockRows = 2
    PageRows = 2
    HashSlots = 3
    M = 2
    EfConstruction = 2
    EntryBeam = 1
    Warmup = 1
    DrawnLevel <- MCDrawnLevel
    Sq8MinRows = 2
    GraphMinNodes = 2
    MaxFilterDepth = 3
    MaxFilterTerms = 8
    RerankFactor = 1
    DefaultEf = 1
    MaxEfMultiplier = 2
    FieldIds <- MCFieldIds
    BaseSchema <- MCBaseSchema
    Feeds <- MCFeeds
    Filters <- MCFilters
    Queries <- MCQueries
    Plans <- MCPlans
    Scrolls <- MCScrolls
    SeenCommits = {1, 9}
    Ttl = 2
    MaxTime = 2
    MaxPins = 1
    MemoryLimit = 1
    MaxTokens = 2
    MaxFaults = 1
    TokenTails <- MCTokenTails
    FaultTails <- MCFaultTails
SPECIFICATION Spec
CHECK_DEADLOCK FALSE
INVARIANTS ReadsAgree SearchAgrees ScrollOnce Scrubbed
PROPERTY PinsOwned
