SPECIFICATION FairSpec
CONSTANTS
    None = none
    BufferSize = 2
    MaxRequests = 3
    MaxOthers = 1
    MaxStops = 2
INVARIANTS RequestsAnswered OneConnection InSyncWhenCalm
PROPERTIES Reconnects SessionsEnd
CHECK_DEADLOCK FALSE
