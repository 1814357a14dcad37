SPECIFICATION Spec
CONSTANTS
    a = a
    b = b
    s = s
    t = t
    Jobs = {a, b}
    Servers = {s}
    Workers = {w1, w2}
    ServerOf <- OneServer
    Sched <- Schedules
    Policy <- Policies
    Limits = {1}
    MaxTime = 2
    MaxRestarts = 0
    MaxRequests = 2
    MaxFaults = 0
INVARIANT PausedNeverCaughtUp
CHECK_DEADLOCK FALSE
