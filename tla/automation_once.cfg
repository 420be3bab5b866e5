SPECIFICATION Spec
CONSTANTS
    s1 = s1
    s2 = s2
    Servers = {s1, s2}
    Plans <- LateOnce
    Every = 1
    Ttl = 1
    MaxRuns = 3
INVARIANT OnceMeansOnce
CHECK_DEADLOCK FALSE
