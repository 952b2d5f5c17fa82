CONSTANTS
    HeaderLen = 12
    RBufLen = 512
    ResponseBufferLen = 2048
    Datasets = {100, 1100}
    CallerLens = {600}
    Tids = {1, 2}
    MaxQueue = 2
    MaxFaults = 0
SPECIFICATION Spec
INVARIANTS CopiesOnlyResponse
CHECK_DEADLOCK FALSE
