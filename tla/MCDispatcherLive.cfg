SPECIFICATION FairSpec
CONSTANTS
    a = a
    b = b
    s = s
    t = t
    Jobs = {a, b}
    Servers = {s, t}
    Workers = {w1, w2}
    ServerOf <- TwoServers
    Sched <- Schedules
    Policy <- NoSkipping
    Limits = {1}
    MaxTime = 2
    MaxRestarts = 0
    MaxRequests = 0
    MaxFaults = 0
INVARIANT GlobalLimitKept
PROPERTIES DueIsServed MissedRunCaughtUp
CHECK_DEADLOCK FALSE
