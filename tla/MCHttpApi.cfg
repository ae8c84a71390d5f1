SPECIFICATION Spec
CONSTANTS
    Base = 6
    BlockSize = 4
    frameByte0 = 0
    frameByte1 = 5
    Ciphers = {1, 3}
    RequestKey = 3
    ResponseKey = 1
    EncBlock <- MCEncBlock
    DecBlock <- MCDecBlock
    Matches = {1, 2, 3}
    Rooms = {1, 2, 3}
    Links <- MCLinks
    MatchTime <- MCMatchTime
    Hot <- MCHot
    DayLength = 2
    RoomType <- MCRoomType
    Parents <- MCParents
    CatalogLimit = 2
    MergedCap = 2
    RecommendLimit = 2
    DateLimit = 3
    DetailLimit = 3
    TypeLimit = 1
    AllLimit = 2
    InitTables <- MCInitTables
    Requests <- MCRequests
    MaxRequests = 2
    MaxEdits = 1
    MaxFailures = 1
INVARIANTS
    
    AnswerFitsRequest
    EarlierIsListed
    ListedCanBeOpened
    RoomGroupsAgree
CHECK_DEADLOCK FALSE
