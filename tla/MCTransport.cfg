CONSTANTS
    Responses <- MCResponses
    RxBuffer = 3
    MaxResponse = 4
    MaxDrainIdle = 1
    MaxNics = 2
    MaxRequests = 3
SPECIFICATION Spec
INVARIANTS TypeOK AnswersCostNoHandle BodyExact EveryNicTried SentAtMostTwice
PROPERTIES RequestEnds
CHECK_DEADLOCK FALSE
