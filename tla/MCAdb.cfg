CONSTANTS
    HeaderLen = 24
    RBufLen = 512
    ResponseBufferLen = 2048
    Payloads = {6}
    DevPayloads = {0, 512}
    CallerLens = {30}
    StreamIds = {3, 5}
    MaxQueue = 2
    MaxFaults = 1
    Garbled = {"other"}
    MaxCalls = 4
SPECIFICATION Spec
INVARIANTS AdbTypeOK InSync WholeReply CopiesInBounds
CHECK_DEADLOCK FALSE
