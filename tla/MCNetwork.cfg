CONSTANTS
    Names <- MCNames
    Literals <- MCLiterals
    Zone <- MCZone
    MaxCnameDepth = 2
    MaxCache = 2
    TxIds = 4
    Nics = 2
    MaxRequests = 3
SPECIFICATION Spec
INVARIANTS AnswerBelongs CacheSound UdpChildReleased
PROPERTIES ResolveEnds
CHECK_DEADLOCK FALSE
