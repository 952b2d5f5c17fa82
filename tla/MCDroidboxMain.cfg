CONSTANTS
    HeaderLen = 24
    RBufLen = 512
    ResponseBufferLen = 2048
    Payloads = {}
    DevPayloads = {0, 512}
    CallerLens = {}
    StreamIds = {3, 5}
    MaxQueue = 2
    MaxFaults = 1
    Garbled = {"CNXN", "STLS", "AUTH", "OPEN", "OKAY", "WRTE", "CLSE", "other"}
SPECIFICATION FairSpec
INVARIANTS TypeOK ProperReply AcksOnlyOpenStream ReleasedAtExit DaemonsTurn
PROPERTIES Ends UnplugBeforeStreamEnds
CHECK_DEADLOCK FALSE
