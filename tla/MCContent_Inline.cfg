CONSTANTS
    top = top  mid = mid  low = low  twin = twin
    p = p  q = q
    nul = nul  letter = letter
    Messages <- MCMessages
    Nids <- MCNids
    Texts <- MCTexts
    Domains <- MCDomains
    Files <- MCFiles
    Calls <- MCCalls
    StoreDepth = 2
    MaxAttachments = 3
    Bytes <- MCBytes
    Zero = nul
    DictionarySize = 4
    InitialDictionary <- MCInitial
    MaxReferenceLength = 4
    Values <- MCValues
    MaxOutput = 6
    Followed <- MCFollowed
CHECK_DEADLOCK FALSE
SPECIFICATION ContentSpec
INVARIANTS BytesBecomeParts
