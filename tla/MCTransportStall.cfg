CONSTANTS
    Responses <- MCResponses
    RxBuffer = 3
    MaxResponse = 4
    MaxDrainIdle = 1
    MaxNics = 2
    MaxRequests = 3
SPECIFICATION Spec
PROPERTIES LengthCheckSuffices
CHECK_DEADLOCK FALSE
