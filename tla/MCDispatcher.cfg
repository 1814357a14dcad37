SPECIFICATION Spec
SYMMETRY WorkerSymmetry
CONSTANTS
    a = a
    b = b
    s = s
    t = t
    Jobs = {a, b}
    Servers = {s}
    Workers = {w1, w2}
    ServerOf <- OneServer
    Sched <- Schedules
    Policy <- Policies
    Limits = {2}
    MaxTime = 2
    MaxRestarts = 1
    MaxRequests = 1
    MaxFaults = 1
INVARIANTS ServerLimitKept BacklogCollapses
CHECK_DEADLOCK FALSE
