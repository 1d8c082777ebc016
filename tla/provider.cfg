SPECIFICATION Spec
CONSTANTS
    ArticleTime = 2
    RequestTime <- MCRequestTime
    Requests <- MCRequests
    PauseTime <- MCPauseTime
INVARIANTS
    TypeOK
    ThreadsBounded
    FaithfulToAnswer
