CONSTANTS
    MaxLen = 2
    MaxQueue = 2
    MaxCalls = 3
    MaxSignals = 2
SPECIFICATION FairSpec
INVARIANTS TypeOK ReapsOwnUrb LeftoverMeansGone
PROPERTIES ImplementsBulkPipe UnplugEndsCall SendReturns
CHECK_DEADLOCK FALSE
