SPECIFICATION MCFairSpec
CONSTANTS
    c1 = c1
    c2 = c2
    c3 = c3
    c4 = c4
    d1 = d1
    d2 = d2
    d3 = d3
    p = p
    q = q
    t = t
    u = u
    past = past
    Past = past
    Commands = {c1, c2}
    Dispatches = {d1, d2}
    Aggregates = {p, q, t, u}
    Decision <- WriteBoth
    History <- TwoThreads
    ReadLimit = 100
    MaxFaults = 1
    MaxCrashes = 1
    MaxRepairs = 1
\* The workload is finite: when every dispatch is answered the system stops.
CHECK_DEADLOCK FALSE
PROPERTIES
    EveryDispatchAnswered
