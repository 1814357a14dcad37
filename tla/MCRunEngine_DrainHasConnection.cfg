SPECIFICATION FairSpec
CONSTANTS
    Jobs <- StopStartJobs
    MaxFaults = 0
INVARIANT DrainHasConnection
