SPECIFICATION Spec
CONSTANTS
    s1 = s1
    s2 = s2
    Servers = {s1, s2}
    Plans <- AllPlans
    Every = 1
    Ttl = 1
    MaxRuns = 3
INVARIANT TypeOK
INVARIANT OncePerOccurrence
INVARIANT ThreadExclusive
INVARIANT SucceededResultStands
INVARIANT NoOrphanTree
INVARIANT StopStands
PROPERTY FinalStays
PROPERTY SettledNotLaunched
PROPERTY HeartbeatWaitsForCheck
CHECK_DEADLOCK FALSE
