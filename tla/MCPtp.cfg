CONSTANTS
    HeaderLen = 12
    RBufLen = 512
    ResponseBufferLen = 2048
    Datasets = {100, 512, 1024, 1100, 2100}
    CallerLens = {600}
    Tids = {1, 2}
    MaxQueue = 2
    MaxFaults = 1
SPECIFICATION FairSpec
INVARIANTS TypeOK AnswersOwn DataWhole DefinedUnlessFault PipesDrained NeverBothWait
PROPERTIES ImplementsRemoteCall CallReturns
CHECK_DEADLOCK FALSE
