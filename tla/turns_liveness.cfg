SPECIFICATION FairSpec
CONSTANTS
    m1 = m1
    m2 = m2
    m3 = m3
    x1 = x1
    Messages = {m1, m2, x1}
    Urgent = {x1}
    Possible = {"fault"}
    MaxTroubles = 1
    Recurring = {}
PROPERTIES
    QueueAdvances
\* Once every message has its fate nothing more need happen.
CHECK_DEADLOCK FALSE
