\* Every interleaving of a run with a cancellation, over the jobs of
\* MCRunEngine, with a database write that may fail.
SPECIFICATION FairSpec
CONSTANTS
    Jobs <- AllJobs
    MaxFaults = 1
INVARIANTS TypeOK NoFalseSuccess RetentionOnlyAfterSuccess CleanupExactlyOnce RecoveryTruthful HistoryTruthful
PROPERTIES ImplementsContract RunEnds
