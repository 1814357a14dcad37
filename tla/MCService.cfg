\* Two runs, of one job or of two, with a crash, a failing statement and
\* deleted jobs.
SPECIFICATION Spec
CONSTANTS
    Jobs = {j1, j2}
    Runs = {r1, r2}
    None = None
    MaxCrashes = 1
    MaxFaults = 1
SYMMETRY RunSymmetry
INVARIANTS OneRunPerJob DeleteSparesActive WaitGroupExact
