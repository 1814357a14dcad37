SPECIFICATION FairSpec
CONSTANTS
    Jobs = {j1}
    Sessions = {s1, s2}
    Main = main
    None = none
    Migrations = 2
    MaxEdits = 2
    MaxFaults = 1
    MaxCrashes = 1
INVARIANTS AggregateWhole LoadsForward MigrationsRestartable
PROPERTIES DeletionSafe RequestsEnd
