SPECIFICATION FairSpec
CONSTANTS
    None = None
    MaxUsize = 2147483647
    MaxPermits = 536870911
    Cores = 8
    Form <- Forms
    Startup <- Startups
    LowerOf <- Lower
    Width <- Widths
    MaxStemBytes = 4
    MaxSuffix = 4
    ChannelCapacity = 2
    ChunkSize = 3
    UnitSize <- Sizes
    MaxU32 = 20
    MaxU16 = 4
    ImageName <- ImageNames
    Pieces <- LeafPieces
INVARIANTS
    ServiceUsable
    DocumentsApart
    ResultsOfOwnUpload
    ArchiveComplete
PROPERTIES
    LeaseSpansAnswer
CHECK_DEADLOCK FALSE
