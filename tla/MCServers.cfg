CONSTANTS
    s1 = s1
    s2 = s2
    r1 = r1
    r2 = r2
    k1 = k1
    k2 = k2
    p1 = p1
    p2 = p2
    Ids = {s1, s2}
    Refs = {r1, r2}
    Hosts = {h1}
    Keys = {k1, k2}
    Procs = {p1, p2}
    Jobs = {j1}
    NoRef = NoRef
    NoKey = NoKey
    NoServer = NoServer
    MaxRequests = 4
    MaxRekeys = 1
SPECIFICATION Spec
SYMMETRY Symmetric
CHECK_DEADLOCK FALSE
INVARIANTS TrustConfirmed OfferedToConfirmed CredentialsResolve JobsHaveServers OfferedOnce
