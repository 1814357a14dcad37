\* Two runs of one job: what a crash or a shutdown leaves behind is cleared,
\* and a shutdown ends.
SPECIFICATION FairSpec
CONSTANTS
    Jobs = {j1}
    Runs = {r1, r2}
    None = None
    MaxCrashes = 1
    MaxFaults = 1
INVARIANT NothingLeftBehind
PROPERTIES ShutdownEnds CrashedRunsRecovered
