SPECIFICATION FairSpec
CONSTANTS
    s1 = s1
    s2 = s2
    Servers = {s1, s2}
    Plans <- FairPlans
    Every = 1
    Ttl = 1
    MaxRuns = 2
PROPERTY ScheduleMoves
PROPERTY RunsSettle
CHECK_DEADLOCK FALSE
