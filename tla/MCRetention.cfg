SPECIFICATION Spec
CONSTANTS
    MaxRuns = 4
    MaxTime = 5
    LocalTime <- ClocksGoBack
    Dirs = {d1, d2}
    KeepLast = 1
    MaxAge = 2
    MaxFaults = 1
    MaxCrashes = 1
INVARIANTS TypeOK OwnArchiveSurvives PolicyEnforced NoForgottenFile
CHECK_DEADLOCK FALSE
