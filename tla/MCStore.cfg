CONSTANTS
    ByteBase = 4
    MaxMvItems = 3
    MaxFileTime = 200
    HighSurrogates = {12, 13}
    LowSurrogates = {14, 15}
    UndefinedBytes = {3}
    MaxPropertyCount = 7
    HidTypes = 4
    BucketBase = 5
    MaxItems = 3
    PsMapi <- MCMapi
    PsPublicStrings <- MCPublicStrings
    ReplacementUnit = 11
    Crc <- Crc8
    ExclusiveOr <- BitsDiffer
    Files <- MCFiles
    Tag <- Tags
    Asked = {1, 2, 3, 4}
    SetsAsked <- MCSets
    Iterated = {"message"}
CHECK_DEADLOCK FALSE
SPECIFICATION StoreSpec
INVARIANTS StoreTypeOK AnswersAreFiles ReadsWhatWasWritten NamesAgree BucketsHoldEntries
